---- MODULE Spec2Model ----
(***************************************************************************)
(* Model of the Canon EDSDK wrapper: the session manager (EdsdkModule),    *)
(* the per-camera session (CameraModule, the variant with the image        *)
(* download pipeline) and the native binding they call.                    *)
(*                                                                         *)
(* Every async method is cut at its await points: one action per stretch   *)
(* of code that runs between two awaits.  A call occupies a slot of        *)
(* `calls` from the moment it is made; its result stays there until the    *)
(* slot is used for the next call.                                         *)
(***************************************************************************)
EXTENDS Integers, Sequences, FiniteSets, TLC

\* ---------------------------------------------------------------- bounds
\* calls that may be in flight at once (slots of `calls`)
MaxInFlight == 2
\* reference count of one device handle from which no further open of it
\* is started
MaxRetain == 2
\* binding calls that report a failure in one run
MaxFaults == 1
\* reference count of a device handle from which the listAsync of index.ts
\* is not called again
MaxListed == 3

\* ------------------------------------------------------------- constants
EDS_ERR_OK == 0
EDS_OBJECT_EVENT_DIR_ITEM_REQUEST_TRANSFER == 520

\* the result codes a binding call reports: success or some error code
ErrorCodes == {2}
Results == {EDS_ERR_OK} \cup ErrorCodes

\* event codes the SDK hands to the three callbacks
PropertyEvents == {257}
ObjectEvents == {EDS_OBJECT_EVENT_DIR_ITEM_REQUEST_TRANSFER, 516}
StateEvents == {769}

\* the directory items a camera offers for transfer, and what
\* EdsGetDirectoryItemInfo reports for each
DirectoryItems == {"item1", "item2"}
DirectoryItemInfo(item) ==
  IF item = "item1"
    THEN [szFileName |-> "IMG_0001.JPG", size |-> 12345, dateTime |-> 1700000000]
    ELSE [szFileName |-> "IMG_0002.JPG", size |-> 777, dateTime |-> 1700000400]

\* the functions a caller subscribes
Listeners == {"l1", "l2"}

\* the cameras the SDK enumerates, in enumeration order
Connected ==
  << [portName |-> "A", deviceDescription |-> "EOS-A", deviceSubType |-> 1,
      cameraRef |-> "refA"],
     [portName |-> "B", deviceDescription |-> "EOS-B", deviceSubType |-> 2,
      cameraRef |-> "refB"] >>

Refs == {Connected[i].cameraRef : i \in 1..Len(Connected)}
ConnectedPorts == {Connected[i].portName : i \in 1..Len(Connected)}
\* port names a caller may pass: the connected ones and one of a camera
\* that has been unplugged since it was listed
PortNames == ConnectedPorts \cup {"C"}

Slots == 1..MaxInFlight
\* CameraModule objects that can be alive at once for one device: the
\* tracked one, the one whose object callback the SDK still holds, and one
\* per call in flight.  An object is named by its device and a number.
CamIds == Refs \X (1..(2 + MaxInFlight))
NoCam == <<"none", 0>>

VARIABLES
  openCameras,               \* EdsdkModule._openCameras: portName -> CameraModule
  eventLoopIntervalHandle,   \* EdsdkModule._eventLoopIntervalHandle is set
  timers,                    \* interval timers of the runtime that are active
  cameraModules,             \* the CameraModule objects, by identity
  sdk,                       \* the native SDK's state per camera handle
  calls,                     \* the calls in flight, one per slot
  faults,                    \* binding calls that have reported a failure
  lastTick,                  \* what the tick of the event loop just taken did
  loadedLib,                 \* index.ts: the library instance loadEdsdk keeps
  initialized                \* EdsInitializeSDK calls since the last EdsTerminateSDK

vars == <<openCameras, eventLoopIntervalHandle, timers, cameraModules, sdk,
          calls, faults, lastTick, loadedLib, initialized>>

\* ------------------------------------------------------------ data shapes
\* one call into the native binding
B(fn, ref, arg) == [fn |-> fn, ref |-> ref, arg |-> arg]

NoCamera ==
  [cameraRef |-> "none", opened |-> FALSE,
   handlePropertyEventChange |-> FALSE,
   handleObjectEventChange |-> FALSE,
   handleStateEventChange |-> FALSE,
   newImageListeners |-> <<>>]

\* the call made just before, when it was made for the same identity: the
\* operation, whether the identity was tracked when it was made, its result
\* and its binding calls
NoPrior == [op |-> "-", tracked |-> FALSE, result |-> "-", trace |-> <<>>]

NoCall ==
  [op |-> "idle", portName |-> "-", pc |-> "idle", cam |-> NoCam,
   list |-> "none", cameras |-> <<>>, result |-> "-", ret |-> <<>>,
   trace |-> <<>>, tracked |-> FALSE, prior |-> NoPrior,
   found |-> <<>>, closing |-> <<>>, listener |-> "-", capability |-> "-",
   reported |-> <<>>]

Tracked == {p \in PortNames : openCameras[p] # NoCam}

\* a CameraModule is alive while the map, a call or the SDK refers to it
InUse(id) ==
  \/ \E p \in PortNames : openCameras[p] = id
  \/ \E s \in Slots : calls[s].cam = id
  \/ \E s \in Slots : \E i \in 1..Len(calls[s].closing) : calls[s].closing[i] = id
  \/ \E r \in Refs : id \in {sdk[r].propertyHandler, sdk[r].objectHandler,
                              sdk[r].stateHandler}

\* a run of the download pipeline: its binding calls, what those whose
\* result is looked at reported, the listeners called with the image, the
\* warnings logged, and how the promise settled
NoRun ==
  [item |-> "-", trace |-> <<>>, reported |-> <<>>, delivered |-> <<>>,
   completeWarning |-> FALSE, noListenerWarning |-> FALSE, outcome |-> "-",
   unhandledRejection |-> FALSE]

\* a tick: the EdsGetEvent calls it made, the event the SDK handed to a
\* callback, the code the callback returned, and the download it ran
NoTick ==
  [pumps |-> 0, kind |-> "-", ref |-> "-", code |-> 0, cam |-> NoCam,
   returned |-> 0, run |-> NoRun]

\* let loadedLib: LoadedLibInternal | undefined: nothing is loaded
NoLib == <<>>

\* new CameraModule(this.ffi, foundCamera.cameraRef)
FreshCam(ref) ==
  CHOOSE id \in CamIds :
    /\ id[1] = ref /\ ~InUse(id)
    /\ \A k \in 1..(id[2] - 1) : InUse(<<ref, k>>)

Init ==
  /\ openCameras = [p \in PortNames |-> NoCam]
  /\ eventLoopIntervalHandle = FALSE
  /\ timers = 0
  /\ cameraModules = [id \in CamIds |-> NoCamera]
  /\ sdk = [r \in Refs |->
             [refCount |-> 0, session |-> FALSE,
              propertyHandler |-> NoCam, objectHandler |-> NoCam,
              stateHandler |-> NoCam]]
  /\ calls = [s \in Slots |-> NoCall]
  /\ faults = 0
  /\ lastTick = NoTick
  /\ loadedLib = NoLib
  /\ initialized = 0

\* ------------------------------------------------------------- helpers
RefOf(p) ==
  LET i == CHOOSE i \in 1..Len(Connected) : Connected[i].portName = p
  IN Connected[i].cameraRef

\* a slot can take a call when it holds none or a finished one
Free(s) == calls[s].pc \in {"idle", "done"}
Quiet == \A s \in Slots : Free(s)

\* a binding call may report r
CanReport(r) == r = EDS_ERR_OK \/ faults < MaxFaults
Faulted(r) == IF r = EDS_ERR_OK THEN 0 ELSE 1

\* the record of a call that is being made in slot s
NewCall(s, op, p) ==
  [NoCall EXCEPT
     !.op = op, !.portName = p,
     !.tracked = (p \in Tracked),
     !.prior = IF calls[s].pc = "done" /\ calls[s].portName = p
                 THEN [op |-> calls[s].op, tracked |-> calls[s].tracked,
                       result |-> calls[s].result, trace |-> calls[s].trace]
                 ELSE NoPrior]

\* the method has returned or thrown: its locals are dead
Finish(c, result) ==
  [c EXCEPT !.pc = "done", !.result = result, !.cam = NoCam, !.cameras = <<>>,
            !.closing = <<>>]

Sent(c, b) == [c EXCEPT !.trace = Append(@, b)]

InUseIn(oc, cl, sd, id) ==
  \/ \E p \in PortNames : oc[p] = id
  \/ \E s \in Slots : cl[s].cam = id
  \/ \E s \in Slots : \E i \in 1..Len(cl[s].closing) : cl[s].closing[i] = id
  \/ \E r \in Refs : id \in {sd[r].propertyHandler, sd[r].objectHandler,
                              sd[r].stateHandler}

\* objects nothing refers to any more are garbage
Collect(cm, oc, cl, sd) ==
  [id \in CamIds |-> IF InUseIn(oc, cl, sd, id) THEN cm[id] ELSE NoCamera]

\* opens of p in flight that have not yet retained the handle
PendingRetains(p) ==
  Cardinality({s \in Slots : /\ calls[s].op = "open"
                             /\ calls[s].portName = p
                             /\ calls[s].pc \in {"count", "children", "listed"}})

\* ------------------------------------------- EdsdkModule._listCamerasAsync
\* EdsGetCameraList and the check of its result
ListCamerasCall(c, r) ==
  IF r = EDS_ERR_OK
    THEN [Sent(c, B("EdsGetCameraList", "list", "")) EXCEPT
            !.pc = "count", !.list = "held"]
    ELSE Finish(Sent(c, B("EdsGetCameraList", "list", "")), "ListError")

\* EdsGetChildCount and the check of its result
ListCamerasCount(s) ==
  /\ calls[s].pc = "count"
  /\ \E r \in Results :
       /\ CanReport(r)
       /\ faults' = faults + Faulted(r)
       /\ calls' = [calls EXCEPT ![s] =
            IF r = EDS_ERR_OK
              THEN [Sent(@, B("EdsGetChildCount", "list", "")) EXCEPT !.pc = "children"]
              ELSE Finish(Sent(@, B("EdsGetChildCount", "list", "")), "CountError")]
  /\ UNCHANGED <<openCameras, eventLoopIntervalHandle, timers, cameraModules, sdk>>

RECURSIVE ChildCalls(_, _)
\* the binding calls of rounds n+1 .. upTo of the loop over the children
\* (a child is named by its port instead of its index)
ChildCalls(n, upTo) ==
  IF n >= upTo THEN <<>>
  ELSE << B("EdsGetChildAtIndex", "list", Connected[n + 1].portName),
          B("EdsGetDeviceInfo", Connected[n + 1].cameraRef, "") >>
       \o ChildCalls(n + 1, upTo)

\* the loop over the children: it ends with every camera pushed, or throws
\* at child i when EdsGetChildAtIndex or EdsGetDeviceInfo fails there
ListCamerasChildren(s) ==
  /\ calls[s].pc = "children"
  /\ \/ /\ calls' = [calls EXCEPT ![s] =
             [@ EXCEPT !.pc = "listed", !.cameras = Connected,
                       !.trace = @ \o ChildCalls(0, Len(Connected))]]
        /\ UNCHANGED faults
     \/ \E i \in 1..Len(Connected) :
          /\ faults < MaxFaults
          /\ faults' = faults + 1
          /\ calls' = [calls EXCEPT ![s] =
               Finish([@ EXCEPT !.trace = @ \o ChildCalls(0, i - 1) \o
                         << B("EdsGetChildAtIndex", "list", Connected[i].portName) >>],
                      "ChildError")]
     \/ \E i \in 1..Len(Connected) :
          /\ faults < MaxFaults
          /\ faults' = faults + 1
          /\ calls' = [calls EXCEPT ![s] =
               Finish([@ EXCEPT !.trace = @ \o ChildCalls(0, i)], "InfoError")]
  /\ UNCHANGED <<openCameras, eventLoopIntervalHandle, timers, cameraModules, sdk>>

\* releaseCamerasList
ReleaseCamerasList(c) ==
  [Sent(c, B("EdsRelease", "list", "")) EXCEPT !.list = "released"]

\* ---------------------------------------------------- EdsdkModule.listAsync
\* the identity of a listed camera: its entry without the camera reference
CameraInfoOf(c) ==
  [portName |-> c.portName, deviceDescription |-> c.deviceDescription,
   deviceSubType |-> c.deviceSubType]

listAsync(s) ==
  /\ Free(s)
  /\ \E r \in Results :
       /\ CanReport(r)
       /\ faults' = faults + Faulted(r)
       /\ calls' = [calls EXCEPT ![s] = ListCamerasCall(NewCall(s, "list", "-"), r)]
  /\ UNCHANGED <<openCameras, eventLoopIntervalHandle, timers, cameraModules, sdk>>

ListRelease(s) ==
  /\ calls[s].op = "list" /\ calls[s].pc = "listed"
  /\ calls' = [calls EXCEPT ![s] =
       [ReleaseCamerasList(@) EXCEPT
          !.pc = "return",
          !.ret = [i \in 1..Len(calls[s].cameras) |-> CameraInfoOf(calls[s].cameras[i])]]]
  /\ UNCHANGED <<openCameras, eventLoopIntervalHandle, timers, cameraModules,
                 sdk, faults>>

ListReturn(s) ==
  /\ calls[s].op = "list" /\ calls[s].pc = "return"
  /\ calls' = [calls EXCEPT ![s] = Finish(@, "list")]
  /\ UNCHANGED <<openCameras, eventLoopIntervalHandle, timers, cameraModules,
                 sdk, faults>>

\* ----------------------------------------------- EdsdkModule event loop
\* _startEventLoop without the look at the handle it holds
StartEventLoopUnguarded(handle, n) == [handle |-> TRUE, timers |-> n + 1]

\* _startEventLoop: the interval is set unless one is already held
StartEventLoop(handle, n) ==
  IF handle THEN [handle |-> handle, timers |-> n]
            ELSE [handle |-> TRUE, timers |-> n + 1]

\* _stopEventLoop: the held interval, if any, is cleared
StopEventLoop(handle, n) ==
  IF handle THEN [handle |-> FALSE, timers |-> n - 1]
            ELSE [handle |-> handle, timers |-> n]

\* ---------------------------------------------------- EdsdkModule.openAsync
\* openAsync without its early return
AlreadyOpenNever(p) == FALSE

\* the guard at the top of openAsync
AlreadyOpen(p) == openCameras[p] # NoCam

\* cameras.find((c) => c.portName === cameraInfo.portName)
FoundCamera(cameras, p) ==
  {i \in 1..Len(cameras) :
     /\ cameras[i].portName = p
     /\ \A j \in 1..(i - 1) : cameras[j].portName # p}

openAsync(s, p) ==
  /\ Free(s)
  /\ p \in ConnectedPorts =>
       sdk[RefOf(p)].refCount + PendingRetains(p) < MaxRetain
  /\ IF AlreadyOpen(p)
       THEN /\ calls' = [calls EXCEPT ![s] = Finish(NewCall(s, "open", p), "ok")]
            /\ UNCHANGED faults
       ELSE \E r \in Results :
              /\ CanReport(r)
              /\ faults' = faults + Faulted(r)
              /\ calls' = [calls EXCEPT ![s] =
                   ListCamerasCall(NewCall(s, "open", p), r)]
  /\ UNCHANGED <<openCameras, eventLoopIntervalHandle, timers, cameraModules, sdk>>

\* CameraModule.open up to its first await: EdsRetain, then the property
\* callback is registered with koffi and handed to the SDK
CameraOpenRetain(s, id, ref, r) ==
  /\ sdk' = [sdk EXCEPT
       ![ref].refCount = @ + 1,
       ![ref].propertyHandler = IF r = EDS_ERR_OK THEN id ELSE @]
  /\ calls' = [calls EXCEPT ![s] =
       [@ EXCEPT !.cam = id, !.pc = "object", !.cameras = <<>>,
                 !.trace = @ \o << B("EdsRetain", ref, ""),
                                   B("EdsSetPropertyEventHandler", ref, "set") >>]]
  /\ cameraModules' =
       Collect([cameraModules EXCEPT ![id] =
                  [NoCamera EXCEPT !.cameraRef = ref,
                                   !.handlePropertyEventChange = TRUE]],
               openCameras, calls', sdk')

\* the camera is looked up in the list; when it is there a CameraModule is
\* made for it and CameraModule.open starts
OpenFind(s) ==
  /\ calls[s].op = "open" /\ calls[s].pc = "listed"
  /\ LET found == FoundCamera(calls[s].cameras, calls[s].portName)
     IN IF found = {}
          THEN /\ calls' = [calls EXCEPT ![s] = Finish(@, "NotFound")]
               /\ UNCHANGED <<cameraModules, sdk, faults>>
          ELSE \E i \in found : \E r \in Results :
                 /\ CanReport(r)
                 /\ faults' = faults + Faulted(r)
                 /\ CameraOpenRetain(s, FreshCam(calls[s].cameras[i].cameraRef),
                                     calls[s].cameras[i].cameraRef, r)
  /\ UNCHANGED <<openCameras, eventLoopIntervalHandle, timers>>

CameraOpenObject(s) ==
  /\ calls[s].op = "open" /\ calls[s].pc = "object"
  /\ LET id == calls[s].cam
         ref == cameraModules[id].cameraRef
     IN /\ \E r \in Results :
             /\ CanReport(r)
             /\ faults' = faults + Faulted(r)
             /\ sdk' = [sdk EXCEPT
                  ![ref].objectHandler = IF r = EDS_ERR_OK THEN id ELSE @]
        /\ calls' = [calls EXCEPT ![s] =
             [Sent(@, B("EdsSetObjectEventHandler", ref, "set")) EXCEPT !.pc = "state"]]
        /\ cameraModules' =
             Collect([cameraModules EXCEPT ![id].handleObjectEventChange = TRUE],
                     openCameras, calls', sdk')
  /\ UNCHANGED <<openCameras, eventLoopIntervalHandle, timers>>

CameraOpenState(s) ==
  /\ calls[s].op = "open" /\ calls[s].pc = "state"
  /\ LET id == calls[s].cam
         ref == cameraModules[id].cameraRef
     IN /\ \E r \in Results :
             /\ CanReport(r)
             /\ faults' = faults + Faulted(r)
             /\ sdk' = [sdk EXCEPT
                  ![ref].stateHandler = IF r = EDS_ERR_OK THEN id ELSE @]
        /\ calls' = [calls EXCEPT ![s] =
             [Sent(@, B("EdsSetCameraStateEventHandler", ref, "set")) EXCEPT
                !.pc = "session"]]
        /\ cameraModules' =
             Collect([cameraModules EXCEPT ![id].handleStateEventChange = TRUE],
                     openCameras, calls', sdk')
  /\ UNCHANGED <<openCameras, eventLoopIntervalHandle, timers>>

\* EdsOpenSession; its result is looked at after the await
CameraOpenSession(s) ==
  /\ calls[s].op = "open" /\ calls[s].pc = "session"
  /\ LET ref == cameraModules[calls[s].cam].cameraRef
     IN \E r \in Results :
          /\ CanReport(r)
          /\ faults' = faults + Faulted(r)
          /\ sdk' = [sdk EXCEPT ![ref].session = IF r = EDS_ERR_OK THEN TRUE ELSE @]
          /\ calls' = [calls EXCEPT ![s] =
               [Sent(@, B("EdsOpenSession", ref, "")) EXCEPT
                  !.pc = IF r = EDS_ERR_OK THEN "saveTo" ELSE "sessionFailed"]]
  /\ UNCHANGED <<openCameras, eventLoopIntervalHandle, timers, cameraModules>>

\* an openAsync that stored the camera before it opened it
CameraOpenSessionFailedButStored(s) ==
  /\ calls[s].op = "open" /\ calls[s].pc = "sessionFailed"
  /\ openCameras' = [openCameras EXCEPT ![calls[s].portName] = calls[s].cam]
  /\ calls' = [calls EXCEPT ![s] = Finish(@, "SessionError")]
  /\ cameraModules' = Collect(cameraModules, openCameras', calls', sdk)
  /\ UNCHANGED <<eventLoopIntervalHandle, timers, sdk, faults>>

\* open throws; openAsync throws with it: nothing is rolled back
CameraOpenSessionFailed(s) ==
  /\ calls[s].op = "open" /\ calls[s].pc = "sessionFailed"
  /\ calls' = [calls EXCEPT ![s] = Finish(@, "SessionError")]
  /\ cameraModules' = Collect(cameraModules, openCameras, calls', sdk)
  /\ UNCHANGED <<openCameras, eventLoopIntervalHandle, timers, sdk, faults>>

\* the three settings calls: their results are not looked at
CameraOpenSetting(s, at, fn, arg, next) ==
  /\ calls[s].op = "open" /\ calls[s].pc = at
  /\ calls' = [calls EXCEPT ![s] =
       [Sent(@, B(fn, cameraModules[calls[s].cam].cameraRef, arg)) EXCEPT !.pc = next]]
  /\ UNCHANGED <<openCameras, eventLoopIntervalHandle, timers, cameraModules,
                 sdk, faults>>

CameraOpenSaveTo(s) ==
  CameraOpenSetting(s, "saveTo", "EdsSetPropertyData", "saveTo", "driveMode")

CameraOpenDriveMode(s) ==
  CameraOpenSetting(s, "driveMode", "EdsSetPropertyData", "driveMode", "capacity")

CameraOpenCapacity(s) ==
  CameraOpenSetting(s, "capacity", "EdsSetCapacity", "", "opened")

\* open() of src/src/CameraModule.ts, the file EdsdkModule.ts imports, goes
\* on after EdsOpenSession with two calls only: the size of the save-to
\* property is asked for, then the property is set; _opened is set next
CameraOpenPropertySize(s) ==
  CameraOpenSetting(s, "saveTo", "EdsGetPropertySize", "saveTo", "saveToSized")

CameraOpenSaveToSized(s) ==
  CameraOpenSetting(s, "saveToSized", "EdsSetPropertyData", "saveTo", "opened")

CameraOpenOpened(s) ==
  /\ calls[s].op = "open" /\ calls[s].pc = "opened"
  /\ cameraModules' = [cameraModules EXCEPT ![calls[s].cam].opened = TRUE]
  /\ calls' = [calls EXCEPT ![s].pc = "startLoop"]
  /\ UNCHANGED <<openCameras, eventLoopIntervalHandle, timers, sdk, faults>>

\* back in openAsync: the loop is started and the list released
OpenStartLoop(s) ==
  /\ calls[s].op = "open" /\ calls[s].pc = "startLoop"
  /\ LET loop == StartEventLoop(eventLoopIntervalHandle, timers)
     IN /\ eventLoopIntervalHandle' = loop.handle
        /\ timers' = loop.timers
  /\ calls' = [calls EXCEPT ![s] = [ReleaseCamerasList(@) EXCEPT !.pc = "store"]]
  /\ UNCHANGED <<openCameras, cameraModules, sdk, faults>>

OpenStore(s) ==
  /\ calls[s].op = "open" /\ calls[s].pc = "store"
  /\ openCameras' = [openCameras EXCEPT ![calls[s].portName] = calls[s].cam]
  /\ calls' = [calls EXCEPT ![s] = Finish(@, "ok")]
  /\ cameraModules' = Collect(cameraModules, openCameras', calls', sdk)
  /\ UNCHANGED <<eventLoopIntervalHandle, timers, sdk, faults>>

\* --------------------------------------------------- EdsdkModule.closeAsync
\* the value close() leaves in _opened when it is through
OpenedAfterClose == TRUE

\* a close() that closes the native session before it takes the handlers back
CameraCloseSessionFirst(s, c, id, rp, ro, rs, rc) ==
  LET ref == cameraModules[id].cameraRef
  IN /\ sdk' = [sdk EXCEPT
          ![ref].propertyHandler = IF rp = EDS_ERR_OK THEN NoCam ELSE @,
          ![ref].objectHandler = IF ro = EDS_ERR_OK THEN NoCam ELSE @,
          ![ref].stateHandler = IF rs = EDS_ERR_OK THEN NoCam ELSE @,
          ![ref].session = IF rc = EDS_ERR_OK THEN FALSE ELSE @]
     /\ calls' = [calls EXCEPT ![s] =
          [c EXCEPT !.cam = id, !.pc = "release",
                    !.trace = @ \o << B("EdsCloseSession", ref, ""),
                                      B("EdsSetPropertyEventHandler", ref, "null"),
                                      B("EdsSetObjectEventHandler", ref, "null"),
                                      B("EdsSetCameraStateEventHandler", ref, "null") >>]]
     /\ cameraModules' =
          Collect([cameraModules EXCEPT
                     ![id].handlePropertyEventChange = FALSE,
                     ![id].handleObjectEventChange = FALSE,
                     ![id].handleStateEventChange = FALSE],
                  openCameras, calls', sdk')

\* CameraModule.close up to its await: the three handlers are taken back
\* from the SDK, the koffi callbacks are unregistered and forgotten, and
\* EdsCloseSession is called.  No result is looked at.
CameraCloseUnregister(s, c, id, rp, ro, rs, rc) ==
  LET ref == cameraModules[id].cameraRef
  IN /\ sdk' = [sdk EXCEPT
          ![ref].propertyHandler = IF rp = EDS_ERR_OK THEN NoCam ELSE @,
          ![ref].objectHandler = IF ro = EDS_ERR_OK THEN NoCam ELSE @,
          ![ref].stateHandler = IF rs = EDS_ERR_OK THEN NoCam ELSE @,
          ![ref].session = IF rc = EDS_ERR_OK THEN FALSE ELSE @]
     /\ calls' = [calls EXCEPT ![s] =
          [c EXCEPT !.cam = id, !.pc = "release",
                    !.trace = @ \o << B("EdsSetPropertyEventHandler", ref, "null"),
                                      B("EdsSetObjectEventHandler", ref, "null"),
                                      B("EdsSetCameraStateEventHandler", ref, "null"),
                                      B("EdsCloseSession", ref, "") >>]]
     /\ cameraModules' =
          Collect([cameraModules EXCEPT
                     ![id].handlePropertyEventChange = FALSE,
                     ![id].handleObjectEventChange = FALSE,
                     ![id].handleStateEventChange = FALSE],
                  openCameras, calls', sdk')

\* a closeAsync that returns true whatever it found
CloseUntrackedTrue(c) == Finish(c, "true")

\* closeAsync when the map has no camera for the port: it returns false
CloseUntracked(c) == Finish(c, "false")

\* a closeAsync whose close() throws when EdsCloseSession reports a failure
closeAsyncThrowing(s, p) ==
  /\ Free(s)
  /\ LET c == NewCall(s, "close", p)
         id == openCameras[p]
     IN IF id = NoCam
          THEN /\ calls' = [calls EXCEPT ![s] = CloseUntracked(c)]
               /\ UNCHANGED <<cameraModules, sdk, faults>>
          ELSE \E rc \in Results :
                 /\ faults + Faulted(rc) <= MaxFaults
                 /\ faults' = faults + Faulted(rc)
                 /\ IF rc = EDS_ERR_OK
                      THEN CameraCloseUnregister(s, c, id, rc, rc, rc, rc)
                      ELSE /\ calls' = [calls EXCEPT ![s] = Finish(c, "SessionError")]
                           /\ UNCHANGED <<cameraModules, sdk>>
  /\ UNCHANGED <<openCameras, eventLoopIntervalHandle, timers>>

closeAsync(s, p) ==
  /\ Free(s)
  /\ LET c == NewCall(s, "close", p)
         id == openCameras[p]
     IN IF id = NoCam
          THEN /\ calls' = [calls EXCEPT ![s] = CloseUntracked(c)]
               /\ UNCHANGED <<cameraModules, sdk, faults>>
          ELSE IF ~cameraModules[id].opened
            THEN /\ calls' = [calls EXCEPT ![s] = [c EXCEPT !.cam = id, !.pc = "delete"]]
                 /\ UNCHANGED <<cameraModules, sdk, faults>>
            ELSE \E rp \in Results, ro \in Results, rs \in Results, rc \in Results :
                   /\ faults + Faulted(rp) + Faulted(ro) + Faulted(rs) + Faulted(rc)
                        <= MaxFaults
                   /\ faults' = faults + Faulted(rp) + Faulted(ro) + Faulted(rs)
                                  + Faulted(rc)
                   /\ CameraCloseUnregister(s, c, id, rp, ro, rs, rc)
  /\ UNCHANGED <<openCameras, eventLoopIntervalHandle, timers>>

\* a close that forgets the EdsRelease
CameraCloseWithoutRelease(s) ==
  /\ calls[s].op = "close" /\ calls[s].pc = "release"
  /\ cameraModules' = [cameraModules EXCEPT ![calls[s].cam].opened = OpenedAfterClose]
  /\ calls' = [calls EXCEPT ![s].pc = "delete"]
  /\ UNCHANGED <<openCameras, eventLoopIntervalHandle, timers, sdk, faults>>

\* CameraModule.close after its await: the handle is released
CameraCloseRelease(s) ==
  /\ calls[s].op = "close" /\ calls[s].pc = "release"
  /\ LET id == calls[s].cam
         ref == cameraModules[id].cameraRef
     IN /\ sdk' = [sdk EXCEPT ![ref].refCount = @ - 1]
        /\ cameraModules' = [cameraModules EXCEPT ![id].opened = OpenedAfterClose]
        /\ calls' = [calls EXCEPT ![s] =
             [Sent(@, B("EdsRelease", ref, "")) EXCEPT !.pc = "delete"]]
  /\ UNCHANGED <<openCameras, eventLoopIntervalHandle, timers, faults>>

\* clear() in the place of delete()
OpenCamerasCleared(oc, p) == [q \in PortNames |-> NoCam]

\* this._openCameras.delete(cameraInfo.portName)
OpenCamerasDelete(oc, p) == [oc EXCEPT ![p] = NoCam]

\* back in closeAsync: the camera leaves the map, and the loop stops with
\* the last one
CloseDelete(s) ==
  /\ calls[s].op = "close" /\ calls[s].pc = "delete"
  /\ openCameras' = OpenCamerasDelete(openCameras, calls[s].portName)
  /\ LET loop == IF \A p \in PortNames : openCameras'[p] = NoCam
                   THEN StopEventLoop(eventLoopIntervalHandle, timers)
                   ELSE [handle |-> eventLoopIntervalHandle, timers |-> timers]
     IN /\ eventLoopIntervalHandle' = loop.handle
        /\ timers' = loop.timers
  /\ calls' = [calls EXCEPT ![s] = Finish(@, "true")]
  /\ cameraModules' = Collect(cameraModules, openCameras', calls', sdk)
  /\ UNCHANGED <<sdk, faults>>

\* ---------------------------------------------------- EdsdkModule.terminate
\* the orders in which a map with these port names can hand out its values
Orders(ports) ==
  {o \in [1..Cardinality(ports) -> ports] :
     \A i, j \in 1..Len(o) : i # j => o[i] # o[j]}

\* the binding calls of CameraModule.close up to its await
CloseCalls(ref) ==
  << B("EdsSetPropertyEventHandler", ref, "null"),
     B("EdsSetObjectEventHandler", ref, "null"),
     B("EdsSetCameraStateEventHandler", ref, "null"),
     B("EdsCloseSession", ref, "") >>

\* what they do to the SDK, given what each reports
ClosedInSdk(sd, ref, r) ==
  [sd EXCEPT
     ![ref].propertyHandler = IF r[1] = EDS_ERR_OK THEN NoCam ELSE @,
     ![ref].objectHandler = IF r[2] = EDS_ERR_OK THEN NoCam ELSE @,
     ![ref].stateHandler = IF r[3] = EDS_ERR_OK THEN NoCam ELSE @,
     ![ref].session = IF r[4] = EDS_ERR_OK THEN FALSE ELSE @]

\* the koffi callbacks of a CameraModule are unregistered and forgotten
Unregistered(cm, id) ==
  [cm EXCEPT ![id].handlePropertyEventChange = FALSE,
             ![id].handleObjectEventChange = FALSE,
             ![id].handleStateEventChange = FALSE]

RECURSIVE TerminateCloses(_, _, _)
\* cameraModule.close() for the cameras ids[1], ids[2], ..., each run up to
\* its await: the SDK, the CameraModules, the binding calls made and the
\* cameras whose close is waiting to go on
TerminateCloses(ids, res, st) ==
  IF ids = <<>> THEN st
  ELSE LET id == Head(ids)
           ref == st.cm[id].cameraRef
       IN TerminateCloses(Tail(ids), res,
            IF st.cm[id].opened
              THEN [sd |-> ClosedInSdk(st.sd, ref, res[id]),
                    cm |-> Unregistered(st.cm, id),
                    trace |-> st.trace \o CloseCalls(ref),
                    closing |-> Append(st.closing, id)]
              ELSE st)

\* a terminate that leaves the map as it is
OpenCamerasKept(oc) == oc

\* this._openCameras.clear()
OpenCamerasClear(oc) == [p \in PortNames |-> NoCam]

\* terminate up to the await of Promise.all: close() is called on every
\* camera of the map, and each close runs up to its own await
terminate(s) ==
  /\ Free(s)
  /\ \E order \in Orders(Tracked) :
     \E res \in [{openCameras[p] : p \in Tracked} -> [1..4 -> Results]] :
       LET ids == [i \in 1..Len(order) |-> openCameras[order[i]]]
           failed == Cardinality({x \in {openCameras[p] : p \in Tracked} \X (1..4) :
                                    res[x[1]][x[2]] # EDS_ERR_OK})
           st == TerminateCloses(ids, res,
                   [sd |-> sdk, cm |-> cameraModules, trace |-> <<>>,
                    closing |-> <<>>])
       IN /\ faults + failed <= MaxFaults
          /\ faults' = faults + failed
          /\ sdk' = st.sd
          /\ calls' = [calls EXCEPT ![s] =
               [NewCall(s, "terminate", "-") EXCEPT
                  !.pc = "closing", !.trace = st.trace,
                  !.found = [i \in 1..Len(ids) |-> cameraModules[ids[i]].cameraRef],
                  !.closing = st.closing]]
          /\ cameraModules' = Collect(st.cm, openCameras, calls', sdk')
  /\ UNCHANGED <<openCameras, eventLoopIntervalHandle, timers>>

\* one of the closes goes on after its await: the handle is released
TerminateRelease(s) ==
  /\ calls[s].op = "terminate" /\ calls[s].pc = "closing"
  /\ calls[s].closing # <<>>
  /\ LET id == Head(calls[s].closing)
         ref == cameraModules[id].cameraRef
     IN /\ sdk' = [sdk EXCEPT ![ref].refCount = @ - 1]
        /\ calls' = [calls EXCEPT ![s] =
             [Sent(@, B("EdsRelease", ref, "")) EXCEPT !.closing = Tail(@)]]
        /\ cameraModules' =
             Collect([cameraModules EXCEPT ![id].opened = OpenedAfterClose],
                     openCameras, calls', sdk')
  /\ UNCHANGED <<openCameras, eventLoopIntervalHandle, timers, faults>>

\* every close has returned: the map is cleared and the loop stopped
TerminateClear(s) ==
  /\ calls[s].op = "terminate" /\ calls[s].pc = "closing"
  /\ calls[s].closing = <<>>
  /\ openCameras' = OpenCamerasClear(openCameras)
  /\ LET loop == StopEventLoop(eventLoopIntervalHandle, timers)
     IN /\ eventLoopIntervalHandle' = loop.handle
        /\ timers' = loop.timers
  /\ calls' = [calls EXCEPT ![s] = Finish(@, "ok")]
  /\ cameraModules' = Collect(cameraModules, openCameras', calls', sdk)
  /\ UNCHANGED <<sdk, faults>>

\* ------------------------------------------ EdsdkModule.triggerCaptureAsync
\* CameraModule.triggerCaptureAsync up to its wait: the press command is
\* handed to the binding, and neither awaited nor its result looked at
\* triggerCaptureAsync without the throw: the commands go out on no camera
TriggerCaptureUnguarded(c, id) ==
  IF id = NoCam
    THEN Finish(Sent(Sent(c, B("EdsSendCommand", "none", "press")),
                     B("EdsSendCommand", "none", "off")), "ok")
    ELSE [Sent(c, B("EdsSendCommand", cameraModules[id].cameraRef, "press"))
            EXCEPT !.cam = id, !.pc = "settle"]

\* the camera is looked up: the call throws when there is none, and goes on
\* into CameraModule.triggerCaptureAsync when there is one
TriggerCapture(c, id) ==
  IF id = NoCam
    THEN Finish(c, "NotOpen")
    ELSE [Sent(c, B("EdsSendCommand", cameraModules[id].cameraRef, "press"))
            EXCEPT !.cam = id, !.pc = "settle"]

\* the press command reports r to a promise nobody waits for
triggerCaptureAsync(s, p) ==
  /\ Free(s)
  /\ \E r \in Results :
       LET c == TriggerCapture(NewCall(s, "trigger", p), openCameras[p])
       IN /\ CanReport(r)
          /\ c.trace = <<>> => r = EDS_ERR_OK
          /\ faults' = faults + Faulted(r)
          /\ calls' = [calls EXCEPT ![s] =
               IF c.trace = <<>> THEN c ELSE [c EXCEPT !.reported = <<r>>]]
  /\ UNCHANGED <<openCameras, eventLoopIntervalHandle, timers, cameraModules, sdk>>

\* a capture that ends after the wait without letting the button go
CameraTriggerWithoutRelease(s) ==
  /\ calls[s].op = "trigger" /\ calls[s].pc = "settle"
  /\ calls' = [calls EXCEPT ![s] = Finish(@, "ok")]
  /\ cameraModules' = Collect(cameraModules, openCameras, calls', sdk)
  /\ UNCHANGED <<openCameras, eventLoopIntervalHandle, timers, sdk, faults>>

\* after the 400 ms: the shutter button is let go
CameraTriggerRelease(s) ==
  /\ calls[s].op = "trigger" /\ calls[s].pc = "settle"
  /\ \E r \in Results :
       /\ CanReport(r)
       /\ faults' = faults + Faulted(r)
       /\ calls' = [calls EXCEPT ![s] =
            [Finish(Sent(@, B("EdsSendCommand",
                             cameraModules[calls[s].cam].cameraRef, "off")), "ok")
               EXCEPT !.reported = Append(@, r)]]
  /\ cameraModules' = Collect(cameraModules, openCameras, calls', sdk)
  /\ UNCHANGED <<openCameras, eventLoopIntervalHandle, timers, sdk>>

\* ---------------------------------------- CameraModule.addNewImageListener
\* a registry that takes no listener
AddNewImageListenerNever(listeners, l) == listeners

\* Set.add: a function that is already in the set keeps its place
AddNewImageListener(listeners, l) ==
  IF \E i \in 1..Len(listeners) : listeners[i] = l
    THEN listeners
    ELSE Append(listeners, l)

\* a returned function that empties the registry
UnsubscribeAll(listeners, l) == <<>>

\* the function addNewImageListener returns: Set.delete
Unsubscribe(listeners, l) ==
  SelectSeq(listeners, LAMBDA x : x # l)

\* no call is in flight and no result is waiting for its caller
Idle == \A s \in Slots : calls[s].pc = "idle"

\* a caller subscribes l to the session tracked for the identity
addNewImageListener(p, l) ==
  /\ Idle
  /\ p \in Tracked
  /\ ~ \E i \in 1..Len(cameraModules[openCameras[p]].newImageListeners) :
         cameraModules[openCameras[p]].newImageListeners[i] = l
  /\ cameraModules' = [cameraModules EXCEPT
       ![openCameras[p]].newImageListeners = AddNewImageListener(@, l)]
  /\ UNCHANGED <<openCameras, eventLoopIntervalHandle, timers, sdk, calls, faults>>

\* a caller uses the function it got back from addNewImageListener
unsubscribe(p, l) ==
  /\ Idle
  /\ p \in Tracked
  /\ \E i \in 1..Len(cameraModules[openCameras[p]].newImageListeners) :
       cameraModules[openCameras[p]].newImageListeners[i] = l
  /\ cameraModules' = [cameraModules EXCEPT
       ![openCameras[p]].newImageListeners = Unsubscribe(@, l)]
  /\ UNCHANGED <<openCameras, eventLoopIntervalHandle, timers, sdk, calls, faults>>

\* ---------------------------------------- CameraModule._handleImageDownload
\* os.tmpdir()
TmpDir == "/tmp"

\* path.join(os.tmpdir(), szFileName)
FilePath(szFileName) == <<TmpDir, szFileName>>

\* a record that loses the size
NewImageOfNoSize(info) ==
  [path |-> FilePath(info.szFileName), filename |-> info.szFileName,
   size |-> 0, dateTime |-> info.dateTime]

\* the record handed to the listeners
NewImage(info) ==
  [path |-> FilePath(info.szFileName), filename |-> info.szFileName,
   size |-> info.size, dateTime |-> info.dateTime]

\* a pipeline that never warns
NoListenerWarningNever(listeners) == FALSE

\* the warning logged when the set of listeners is empty
NoListenerWarning(listeners) == Len(listeners) = 0

\* for (const listener of this._newImageListeners.values()) listener(newImage):
\* the listeners that get called, in order, the loop ending at the first
\* one that throws
CalledListeners(listeners, throws) ==
  LET thrower == {i \in 1..Len(listeners) : listeners[i] \in throws}
  IN IF thrower = {} THEN listeners
     ELSE SubSeq(listeners, 1,
                 CHOOSE i \in thrower : \A j \in thrower : i <= j)

\* a pipeline that looks at no result: every step runs whatever was reported
HandleImageDownloadThrough(listeners, item, rInfo, rStream, rDownload, rComplete, throws) ==
  LET info == DirectoryItemInfo(item)
      called == CalledListeners(listeners, throws)
      made == IF rInfo # EDS_ERR_OK THEN <<rInfo>>
              ELSE IF rStream # EDS_ERR_OK THEN <<rInfo, rStream>>
              ELSE IF rDownload # EDS_ERR_OK THEN <<rInfo, rStream, rDownload>>
              ELSE <<rInfo, rStream, rDownload, rComplete>>
  IN [item |-> item,
      trace |-> << B("EdsGetDirectoryItemInfo", item, ""),
                   B("EdsCreateFileStream", info.szFileName, ""),
                   B("EdsDownload", item, "stream"),
                   B("EdsDownloadComplete", item, ""),
                   B("EdsRelease", "stream", "") >>,
      reported |-> made,
      delivered |-> [i \in 1..Len(called) |->
                       [listener |-> called[i], image |-> NewImage(info)]],
      completeWarning |-> (rComplete # EDS_ERR_OK),
      noListenerWarning |-> NoListenerWarning(listeners),
      outcome |-> "true",
      unhandledRejection |-> FALSE]

\* _handleImageDownload for one directory item, given what each binding call
\* reports and which listeners throw when called
HandleImageDownload(listeners, item, rInfo, rStream, rDownload, rComplete, throws) ==
  LET info == DirectoryItemInfo(item)
      c1 == << B("EdsGetDirectoryItemInfo", item, "") >>
      c2 == c1 \o << B("EdsCreateFileStream", info.szFileName, "") >>
      c3 == c2 \o << B("EdsDownload", item, "stream") >>
      c4 == c3 \o << B("EdsDownloadComplete", item, ""),
                     B("EdsRelease", "stream", "") >>
      called == CalledListeners(listeners, throws)
      aborted(tr, rs) == [NoRun EXCEPT !.item = item, !.trace = tr,
                                       !.reported = rs, !.outcome = "rejected"]
  IN IF rInfo # EDS_ERR_OK THEN aborted(c1, <<rInfo>>)
     ELSE IF rStream # EDS_ERR_OK THEN aborted(c2, <<rInfo, rStream>>)
     ELSE IF rDownload # EDS_ERR_OK THEN aborted(c3, <<rInfo, rStream, rDownload>>)
     ELSE [item |-> item,
           trace |-> c4,
           reported |-> <<rInfo, rStream, rDownload, rComplete>>,
           delivered |-> [i \in 1..Len(called) |->
                            [listener |-> called[i], image |-> NewImage(info)]],
           completeWarning |-> (rComplete # EDS_ERR_OK),
           noListenerWarning |-> NoListenerWarning(listeners),
           outcome |-> IF \E i \in 1..Len(called) : called[i] \in throws
                         THEN "rejected" ELSE "true",
           unhandledRejection |-> FALSE]

\* the binding calls of a run that report a failure
RunFaults(rInfo, rStream, rDownload, rComplete) ==
  Faulted(rInfo) + Faulted(rStream) + Faulted(rDownload) + Faulted(rComplete)

\* results of calls that are never made are not drawn
RunResults(rInfo, rStream, rDownload, rComplete) ==
  /\ rInfo # EDS_ERR_OK => rStream = EDS_ERR_OK
  /\ rInfo # EDS_ERR_OK \/ rStream # EDS_ERR_OK => rDownload = EDS_ERR_OK
  /\ rInfo # EDS_ERR_OK \/ rStream # EDS_ERR_OK \/ rDownload # EDS_ERR_OK
       => rComplete = EDS_ERR_OK

\* ------------------------------------------------- the three callbacks
\* an object callback that hands the SDK the failure of its download
ObjectEventReturningFailure(ref, id, code, item, rInfo, rStream, rDownload, rComplete, throws) ==
  LET run == IF code = EDS_OBJECT_EVENT_DIR_ITEM_REQUEST_TRANSFER
               THEN HandleImageDownload(cameraModules[id].newImageListeners, item,
                                        rInfo, rStream, rDownload, rComplete, throws)
               ELSE NoRun
  IN [pumps |-> 1, kind |-> "object", ref |-> ref, code |-> code, cam |-> id,
      returned |-> IF run.outcome = "rejected" THEN 2 ELSE EDS_ERR_OK,
      run |-> run]

\* an object callback that starts no download
ObjectEventWithoutDownload(ref, id, code, item, rInfo, rStream, rDownload, rComplete, throws) ==
  [pumps |-> 1, kind |-> "object", ref |-> ref, code |-> code, cam |-> id,
   returned |-> EDS_ERR_OK, run |-> NoRun]

\* the object callback: a transfer request starts the download, and
\* EDS_ERR_OK is returned whatever the event
ObjectEvent(ref, id, code, item, rInfo, rStream, rDownload, rComplete, throws) ==
  [pumps |-> 1, kind |-> "object", ref |-> ref, code |-> code, cam |-> id,
   returned |-> EDS_ERR_OK,
   run |-> IF code = EDS_OBJECT_EVENT_DIR_ITEM_REQUEST_TRANSFER
             THEN HandleImageDownload(cameraModules[id].newImageListeners, item,
                                      rInfo, rStream, rDownload, rComplete, throws)
             ELSE NoRun]

\* a tick that calls EdsGetEvent again after the callback has returned
LoggedEventPumpedTwice(kind, ref, id, code) ==
  [pumps |-> 2, kind |-> kind, ref |-> ref, code |-> code, cam |-> id,
   returned |-> EDS_ERR_OK, run |-> NoRun]

\* the property and the state callback log the event and return EDS_ERR_OK
LoggedEvent(kind, ref, id, code) ==
  [pumps |-> 1, kind |-> kind, ref |-> ref, code |-> code, cam |-> id,
   returned |-> EDS_ERR_OK, run |-> NoRun]

\* ------------------------------------------------------- the event loop
\* The binding's functions other than EdsSendCommand are synchronous, so an
\* await on one of them resumes in a microtask: the runtime fires no timer
\* until every call has run up to a wait on a timer, or has handed its
\* result to the caller.
TimersMayFire == \A s \in Slots : calls[s].pc \in {"idle", "settle"}

\* one firing of the interval set by _startEventLoop: EdsGetEvent is called
\* once, and the SDK hands it no event or one event of a camera whose
\* session is open, through the callback registered for it
Tick ==
  /\ timers > 0
  /\ TimersMayFire
  /\ \/ lastTick' = [NoTick EXCEPT !.pumps = 1] /\ UNCHANGED faults
     \/ \E ref \in Refs :
          /\ sdk[ref].session
          /\ \/ /\ sdk[ref].propertyHandler # NoCam
                /\ cameraModules[sdk[ref].propertyHandler].handlePropertyEventChange
                /\ \E code \in PropertyEvents :
                     lastTick' = LoggedEvent("property", ref,
                                             sdk[ref].propertyHandler, code)
                /\ UNCHANGED faults
             \/ /\ sdk[ref].stateHandler # NoCam
                /\ cameraModules[sdk[ref].stateHandler].handleStateEventChange
                /\ \E code \in StateEvents :
                     lastTick' = LoggedEvent("state", ref, sdk[ref].stateHandler, code)
                /\ UNCHANGED faults
             \/ /\ sdk[ref].objectHandler # NoCam
                /\ cameraModules[sdk[ref].objectHandler].handleObjectEventChange
                /\ \E code \in ObjectEvents \ {EDS_OBJECT_EVENT_DIR_ITEM_REQUEST_TRANSFER} :
                     lastTick' = ObjectEvent(ref, sdk[ref].objectHandler, code, "-",
                                             EDS_ERR_OK, EDS_ERR_OK, EDS_ERR_OK,
                                             EDS_ERR_OK, {})
                /\ UNCHANGED faults
             \/ /\ sdk[ref].objectHandler # NoCam
                /\ cameraModules[sdk[ref].objectHandler].handleObjectEventChange
                /\ \E item \in DirectoryItems, throws \in SUBSET Listeners,
                      rInfo \in Results, rStream \in Results,
                      rDownload \in Results, rComplete \in Results :
                     /\ RunResults(rInfo, rStream, rDownload, rComplete)
                     /\ faults + RunFaults(rInfo, rStream, rDownload, rComplete)
                          <= MaxFaults
                     /\ faults' = faults + RunFaults(rInfo, rStream, rDownload, rComplete)
                     /\ lastTick' =
                          ObjectEvent(ref, sdk[ref].objectHandler,
                                      EDS_OBJECT_EVENT_DIR_ITEM_REQUEST_TRANSFER, item,
                                      rInfo, rStream, rDownload, rComplete, throws)
  /\ UNCHANGED <<openCameras, eventLoopIntervalHandle, timers, cameraModules, sdk, calls,
                 loadedLib, initialized>>

\* ------------------------------------------------- listAsync of index.ts
\* The functional implementation that loadEdsdk returns has a listAsync of
\* its own.  It is modelled by itself: it shares no state with EdsdkModule
\* but the SDK.
RECURSIVE IndexChildCalls(_, _)
\* the binding calls of rounds n+1 .. upTo of its loop over the children
IndexChildCalls(n, upTo) ==
  IF n >= upTo THEN <<>>
  ELSE << B("EdsGetChildAtIndex", "list", Connected[n + 1].portName),
          B("EdsGetDeviceInfo", Connected[n + 1].cameraRef, ""),
          B("EdsRetain", Connected[n + 1].cameraRef, "") >>
       \o IndexChildCalls(n + 1, upTo)

\* the handles the first n rounds have retained
IndexRetained(sd, n) ==
  [r \in Refs |->
     IF \E i \in 1..n : Connected[i].cameraRef = r
       THEN [sd[r] EXCEPT !.refCount = @ + 1]
       ELSE sd[r]]

\* EdsGetCameraList and the check of its result
IndexListAsync(s) ==
  /\ Free(s)
  /\ \A r \in Refs : sdk[r].refCount < MaxListed
  /\ \E r \in Results :
       /\ CanReport(r)
       /\ faults' = faults + Faulted(r)
       /\ calls' = [calls EXCEPT ![s] =
            IF r = EDS_ERR_OK
              THEN [Sent(NewCall(s, "indexList", "-"), B("EdsGetCameraList", "list", ""))
                      EXCEPT !.pc = "count", !.list = "held"]
              ELSE Finish(Sent(NewCall(s, "indexList", "-"),
                               B("EdsGetCameraList", "list", "")), "ListError")]
  /\ UNCHANGED <<openCameras, eventLoopIntervalHandle, timers, cameraModules, sdk>>

\* EdsGetChildCount and the check of its result
IndexListCount(s) ==
  /\ calls[s].op = "indexList" /\ calls[s].pc = "count"
  /\ \E r \in Results :
       /\ CanReport(r)
       /\ faults' = faults + Faulted(r)
       /\ calls' = [calls EXCEPT ![s] =
            IF r = EDS_ERR_OK
              THEN [Sent(@, B("EdsGetChildCount", "list", "")) EXCEPT !.pc = "children"]
              ELSE Finish(Sent(@, B("EdsGetChildCount", "list", "")), "CountError")]
  /\ UNCHANGED <<openCameras, eventLoopIntervalHandle, timers, cameraModules, sdk>>

\* the loop over the children: each one is retained and pushed with its
\* camera reference; the loop throws at child i when EdsGetChildAtIndex or
\* EdsGetDeviceInfo fails there
IndexListChildren(s) ==
  /\ calls[s].op = "indexList" /\ calls[s].pc = "children"
  /\ \/ /\ calls' = [calls EXCEPT ![s] =
             [@ EXCEPT !.pc = "listed", !.cameras = Connected,
                       !.trace = @ \o IndexChildCalls(0, Len(Connected))]]
        /\ sdk' = IndexRetained(sdk, Len(Connected))
        /\ UNCHANGED faults
     \/ \E i \in 1..Len(Connected) :
          /\ faults < MaxFaults
          /\ faults' = faults + 1
          /\ sdk' = IndexRetained(sdk, i - 1)
          /\ calls' = [calls EXCEPT ![s] =
               Finish([@ EXCEPT !.trace = @ \o IndexChildCalls(0, i - 1) \o
                         << B("EdsGetChildAtIndex", "list", Connected[i].portName) >>],
                      "ChildError")]
     \/ \E i \in 1..Len(Connected) :
          /\ faults < MaxFaults
          /\ faults' = faults + 1
          /\ sdk' = IndexRetained(sdk, i - 1)
          /\ calls' = [calls EXCEPT ![s] =
               Finish([@ EXCEPT !.trace = @ \o IndexChildCalls(0, i - 1) \o
                         << B("EdsGetChildAtIndex", "list", Connected[i].portName),
                            B("EdsGetDeviceInfo", Connected[i].cameraRef, "") >>],
                      "InfoError")]
  /\ UNCHANGED <<openCameras, eventLoopIntervalHandle, timers, cameraModules>>

\* the list is released and the cameras are returned as they were pushed
IndexListReturn(s) ==
  /\ calls[s].op = "indexList" /\ calls[s].pc = "listed"
  /\ calls' = [calls EXCEPT ![s] =
       Finish([ReleaseCamerasList(@) EXCEPT !.ret = calls[s].cameras], "list")]
  /\ UNCHANGED <<openCameras, eventLoopIntervalHandle, timers, cameraModules,
                 sdk, faults>>

\* --------------------------------------------------------- specifications
\* the steps of _listCamerasAsync, which listAsync and openAsync share
ListCamerasStep(s) ==
  \/ ListCamerasCount(s)
  \/ ListCamerasChildren(s)

ListStep(s) ==
  \/ ListRelease(s)
  \/ ListReturn(s)

OpenStep(s) ==
  \/ OpenFind(s)
  \/ CameraOpenObject(s)
  \/ CameraOpenState(s)
  \/ CameraOpenSession(s)
  \/ CameraOpenSessionFailed(s)
  \/ CameraOpenSaveTo(s)
  \/ CameraOpenDriveMode(s)
  \/ CameraOpenCapacity(s)
  \/ CameraOpenOpened(s)
  \/ OpenStartLoop(s)
  \/ OpenStore(s)

\* the steps of an openAsync whose CameraModule is that of CameraModule.ts
CameraModuleOpenStep(s) ==
  \/ OpenFind(s)
  \/ CameraOpenObject(s)
  \/ CameraOpenState(s)
  \/ CameraOpenSession(s)
  \/ CameraOpenSessionFailed(s)
  \/ CameraOpenPropertySize(s)
  \/ CameraOpenSaveToSized(s)
  \/ CameraOpenOpened(s)
  \/ OpenStartLoop(s)
  \/ OpenStore(s)

CloseStep(s) ==
  \/ CameraCloseRelease(s)
  \/ CloseDelete(s)

TriggerStep(s) == CameraTriggerRelease(s)

TerminateStep(s) ==
  \/ TerminateRelease(s)
  \/ TerminateClear(s)

\* ------------------------------------------- manager: subscribeToImages
\* the manager's subscribe: not-open when no session is tracked for the
\* identity, else the listener goes to that session's registry and the
\* caller gets the function that takes it out again
subscribeToImages(s, p, l) ==
  /\ Free(s)
  /\ IF p \notin Tracked
       THEN /\ calls' = [calls EXCEPT ![s] =
                 Finish([NewCall(s, "subscribe", p) EXCEPT !.listener = l],
                        "NotOpen")]
            /\ UNCHANGED cameraModules
       ELSE /\ cameraModules' = [cameraModules EXCEPT
                 ![openCameras[p]].newImageListeners = AddNewImageListener(@, l)]
            /\ calls' = [calls EXCEPT ![s] =
                 Finish([NewCall(s, "subscribe", p) EXCEPT
                           !.listener = l, !.capability = l], "ok")]
  /\ UNCHANGED <<openCameras, eventLoopIntervalHandle, timers, sdk, faults>>

\* the caller of a subscribe invokes the function it got back, a first and
\* then a second time; the function deletes from the registry it was made by
InvokeUnsubscribe(s) ==
  /\ calls[s].pc = "done"
  /\ \/ calls[s].op = "subscribe" /\ calls[s].result = "ok"
     \/ calls[s].op = "unsubscribe" /\ calls[s].result = "once"
  /\ calls[s].portName \in Tracked
  /\ cameraModules' = [cameraModules EXCEPT
       ![openCameras[calls[s].portName]].newImageListeners =
          Unsubscribe(@, calls[s].capability)]
  /\ calls' = [calls EXCEPT ![s] =
       [@ EXCEPT !.op = "unsubscribe",
                 !.result = IF calls[s].op = "subscribe" THEN "once" ELSE "twice"]]
  /\ UNCHANGED <<openCameras, eventLoopIntervalHandle, timers, sdk, faults>>

Subscription ==
  \/ \E p \in PortNames, l \in Listeners : addNewImageListener(p, l)
  \/ \E p \in PortNames, l \in Listeners : unsubscribe(p, l)

\* the caller has taken the result of the call: the slot is empty again
\* ------------------------------------- loadEdsdk and unloadEdsdk of index.ts
\* the object loadInternal builds and returns: one that no variable and no
\* call holds yet
FreshLib ==
  LET held(n) == \/ loadedLib = <<n>>
                 \/ \E s \in Slots : calls[s].op = "load" /\ calls[s].ret = <<n>>
  IN CHOOSE n \in 1..(MaxInFlight + 1) :
       ~held(n) /\ \A k \in 1..(n - 1) : held(k)

\* if (!loadedLib) { ... }: a library is kept
LoadedAlready(lib) == lib # NoLib

\* loadEdsdk up to its await: when nothing is loaded loadInternal is called,
\* which calls EdsInitializeSDK before its own first await
loadEdsdk(s) ==
  /\ Free(s)
  /\ IF LoadedAlready(loadedLib)
       THEN /\ calls' = [calls EXCEPT ![s] =
                 Finish([NewCall(s, "load", "-") EXCEPT !.ret = loadedLib], "ok")]
            /\ UNCHANGED <<faults, initialized>>
       ELSE \E r \in Results :
              /\ CanReport(r)
              /\ faults' = faults + Faulted(r)
              /\ initialized' = initialized + 1
              /\ calls' = [calls EXCEPT ![s] =
                   [Sent(NewCall(s, "load", "-"), B("EdsInitializeSDK", "-", ""))
                      EXCEPT !.pc = "init", !.reported = <<r>>]]
  /\ UNCHANGED <<openCameras, eventLoopIntervalHandle, timers, cameraModules, sdk,
                 loadedLib>>

\* loadInternal after its await: it throws when the SDK did not initialize,
\* else it builds the library object and returns it
LoadInternalReturn(s) ==
  /\ calls[s].op = "load" /\ calls[s].pc = "init"
  /\ calls' = [calls EXCEPT ![s] =
       IF calls[s].reported[1] # EDS_ERR_OK
         THEN Finish(@, "InitError")
         ELSE [@ EXCEPT !.pc = "loaded", !.ret = <<FreshLib>>]]
  /\ UNCHANGED <<openCameras, eventLoopIntervalHandle, timers, cameraModules, sdk,
                 faults, loadedLib, initialized>>

\* loadEdsdk after its await: loadedLib = <what loadInternal returned>, and
\* return loadedLib
LoadAssign(s) ==
  /\ calls[s].op = "load" /\ calls[s].pc = "loaded"
  /\ loadedLib' = calls[s].ret
  /\ calls' = [calls EXCEPT ![s] = Finish(@, "ok")]
  /\ UNCHANGED <<openCameras, eventLoopIntervalHandle, timers, cameraModules, sdk,
                 faults, initialized>>

LoadStep(s) ==
  \/ LoadInternalReturn(s)
  \/ LoadAssign(s)

\* unloadEdsdk: when a library is loaded its _terminate is called, which
\* calls EdsTerminateSDK, and loadedLib is cleared; the method has no await
\* (_terminate also clears the interval of the library object it belongs to)
unloadEdsdk(s) ==
  /\ Free(s)
  /\ IF loadedLib # NoLib
       THEN /\ calls' = [calls EXCEPT ![s] =
                 Finish(Sent(NewCall(s, "unload", "-"),
                             B("EdsTerminateSDK", "-", "")), "ok")]
            /\ loadedLib' = NoLib
            /\ initialized' = 0
       ELSE /\ calls' = [calls EXCEPT ![s] = Finish(NewCall(s, "unload", "-"), "ok")]
            /\ UNCHANGED <<loadedLib, initialized>>
  /\ UNCHANGED <<openCameras, eventLoopIntervalHandle, timers, cameraModules, sdk,
                 faults>>

Return(s) ==
  /\ calls[s].pc = "done"
  /\ calls' = [calls EXCEPT ![s] = NoCall]
  /\ UNCHANGED <<openCameras, eventLoopIntervalHandle, timers, cameraModules, sdk,
                 faults>>

\* The promise of the _handleImageDownload call the object callback made is
\* held by nobody and has no catch: when it rejects, the runtime raises the
\* rejection as an uncaught exception and the process ends, unless the
\* runtime is set up to log unhandled rejections only (then TickEnd follows).
\* A process that has ended takes no further step.
UnhandledRejection ==
  /\ lastTick.run.outcome = "rejected"
  /\ ~lastTick.run.unhandledRejection
  /\ lastTick' = [lastTick EXCEPT !.run.unhandledRejection = TRUE]
  /\ UNCHANGED <<openCameras, eventLoopIntervalHandle, timers, cameraModules, sdk,
                 calls, faults, loadedLib, initialized>>

\* the tick is over: the runtime goes on to other work
TickEnd ==
  /\ lastTick # NoTick
  /\ ~lastTick.run.unhandledRejection
  /\ lastTick' = NoTick
  /\ UNCHANGED <<openCameras, eventLoopIntervalHandle, timers, cameraModules, sdk,
                 calls, faults, loadedLib, initialized>>

\* A caller of the manager that makes its calls one at a time: each returns
\* before the next is made.  No listener is subscribed.
Next ==
  \/ lastTick = NoTick /\ Quiet /\ listAsync(1) /\ UNCHANGED <<lastTick, loadedLib, initialized>>
  \/ lastTick = NoTick /\ Quiet /\ UNCHANGED <<lastTick, loadedLib, initialized>>
       /\ \E p \in PortNames : openAsync(1, p)
  \/ lastTick = NoTick /\ Quiet /\ UNCHANGED <<lastTick, loadedLib, initialized>>
       /\ \E p \in PortNames : closeAsync(1, p)
  \/ lastTick = NoTick /\ Quiet /\ UNCHANGED <<lastTick, loadedLib, initialized>>
       /\ \E p \in PortNames : triggerCaptureAsync(1, p)
  \/ lastTick = NoTick /\ Quiet /\ terminate(1) /\ UNCHANGED <<lastTick, loadedLib, initialized>>
  \/ lastTick = NoTick /\ TerminateStep(1) /\ UNCHANGED <<lastTick, loadedLib, initialized>>
  \/ lastTick = NoTick /\ ListCamerasStep(1) /\ UNCHANGED <<lastTick, loadedLib, initialized>>
  \/ lastTick = NoTick /\ ListStep(1) /\ UNCHANGED <<lastTick, loadedLib, initialized>>
  \/ lastTick = NoTick /\ OpenStep(1) /\ UNCHANGED <<lastTick, loadedLib, initialized>>
  \/ lastTick = NoTick /\ CloseStep(1) /\ UNCHANGED <<lastTick, loadedLib, initialized>>
  \/ lastTick = NoTick /\ TriggerStep(1) /\ UNCHANGED <<lastTick, loadedLib, initialized>>
  \/ lastTick = NoTick /\ Return(1) /\ UNCHANGED <<lastTick, loadedLib, initialized>>
  \/ lastTick = NoTick /\ Tick
  \/ UnhandledRejection
  \/ TickEnd

Spec == Init /\ [][Next]_vars

\* A caller that opens and closes the connected cameras one call at a time,
\* and subscribes and unsubscribes listeners between its calls.
EventNext ==
  \/ lastTick = NoTick /\ Quiet /\ UNCHANGED <<lastTick, loadedLib, initialized>>
       /\ \E p \in ConnectedPorts : openAsync(1, p)
  \/ lastTick = NoTick /\ Quiet /\ UNCHANGED <<lastTick, loadedLib, initialized>>
       /\ \E p \in ConnectedPorts : closeAsync(1, p)
  \/ lastTick = NoTick /\ ListCamerasStep(1) /\ UNCHANGED <<lastTick, loadedLib, initialized>>
  \/ lastTick = NoTick /\ OpenStep(1) /\ UNCHANGED <<lastTick, loadedLib, initialized>>
  \/ lastTick = NoTick /\ CloseStep(1) /\ UNCHANGED <<lastTick, loadedLib, initialized>>
  \/ lastTick = NoTick /\ Return(1) /\ UNCHANGED <<lastTick, loadedLib, initialized>>
  \/ lastTick = NoTick /\ Subscription /\ UNCHANGED <<lastTick, loadedLib, initialized>>
  \/ lastTick = NoTick /\ Tick
  \/ UnhandledRejection
  \/ TickEnd

EventSpec == Init /\ [][EventNext]_vars

\* A caller of the listAsync of index.ts, one call at a time.
IndexNext ==
  \/ Quiet /\ IndexListAsync(1) /\ UNCHANGED <<lastTick, loadedLib, initialized>>
  \/ IndexListCount(1) /\ UNCHANGED <<lastTick, loadedLib, initialized>>
  \/ IndexListChildren(1) /\ UNCHANGED <<lastTick, loadedLib, initialized>>
  \/ IndexListReturn(1) /\ UNCHANGED <<lastTick, loadedLib, initialized>>
  \/ Return(1) /\ UNCHANGED <<lastTick, loadedLib, initialized>>

IndexSpec == Init /\ [][IndexNext]_vars

\* EdsdkModule with the CameraModule of src/src/CameraModule.ts: a caller that
\* opens and closes, one call at a time.
CameraModuleNext ==
  \/ Quiet /\ UNCHANGED <<lastTick, loadedLib, initialized>> /\ \E p \in PortNames : openAsync(1, p)
  \/ Quiet /\ UNCHANGED <<lastTick, loadedLib, initialized>> /\ \E p \in PortNames : closeAsync(1, p)
  \/ ListCamerasStep(1) /\ UNCHANGED <<lastTick, loadedLib, initialized>>
  \/ CameraModuleOpenStep(1) /\ UNCHANGED <<lastTick, loadedLib, initialized>>
  \/ CloseStep(1) /\ UNCHANGED <<lastTick, loadedLib, initialized>>
  \/ Return(1) /\ UNCHANGED <<lastTick, loadedLib, initialized>>

CameraModuleSpec == Init /\ [][CameraModuleNext]_vars

\* Callers that do not wait: while a call is in flight another open, close or
\* terminate may be made, and the runtime resumes whichever awaiting call it
\* likes.  Every binding call reports EDS_ERR_OK.  In ConcSpec every caller
\* works with camera A; in PairSpec each caller has a camera of its own.
ConcInit ==
  /\ openCameras = [p \in PortNames |-> NoCam]
  /\ eventLoopIntervalHandle = FALSE
  /\ timers = 0
  /\ cameraModules = [id \in CamIds |-> NoCamera]
  /\ sdk = [r \in Refs |->
             [refCount |-> 0, session |-> FALSE,
              propertyHandler |-> NoCam, objectHandler |-> NoCam,
              stateHandler |-> NoCam]]
  /\ calls = [s \in Slots |-> NoCall]
  /\ faults = MaxFaults
  /\ lastTick = NoTick
  /\ loadedLib = NoLib
  /\ initialized = 0

\* no new call is made once a handle has been released more often than
\* retained
ReleasesBounded == \A r \in Refs : sdk[r].refCount >= 0

ConcNext ==
  \/ \E s \in Slots : ReleasesBounded /\ openAsync(s, "A") /\ UNCHANGED <<lastTick, loadedLib, initialized>>
  \/ \E s \in Slots : ReleasesBounded /\ closeAsync(s, "A") /\ UNCHANGED <<lastTick, loadedLib, initialized>>
  \/ \E s \in Slots : ReleasesBounded /\ terminate(s) /\ UNCHANGED <<lastTick, loadedLib, initialized>>
  \/ \E s \in Slots : ListCamerasStep(s) /\ UNCHANGED <<lastTick, loadedLib, initialized>>
  \/ \E s \in Slots : OpenStep(s) /\ UNCHANGED <<lastTick, loadedLib, initialized>>
  \/ \E s \in Slots : CloseStep(s) /\ UNCHANGED <<lastTick, loadedLib, initialized>>
  \/ \E s \in Slots : TerminateStep(s) /\ UNCHANGED <<lastTick, loadedLib, initialized>>
  \/ \E s \in Slots : Return(s) /\ UNCHANGED <<lastTick, loadedLib, initialized>>

ConcSpec == ConcInit /\ [][ConcNext]_vars

\* A caller that opens and closes sessions, subscribes listeners through the
\* manager and invokes the functions it gets back, one call at a time.  Every
\* binding call reports EDS_ERR_OK.
SubscribeNext ==
  \/ Quiet /\ UNCHANGED <<lastTick, loadedLib, initialized>> /\ \E p \in ConnectedPorts : openAsync(1, p)
  \/ Quiet /\ UNCHANGED <<lastTick, loadedLib, initialized>> /\ \E p \in ConnectedPorts : closeAsync(1, p)
  \/ Quiet /\ UNCHANGED <<lastTick, loadedLib, initialized>>
       /\ \E p \in ConnectedPorts, l \in Listeners : subscribeToImages(1, p, l)
  \/ InvokeUnsubscribe(1) /\ UNCHANGED <<lastTick, loadedLib, initialized>>
  \/ ListCamerasStep(1) /\ UNCHANGED <<lastTick, loadedLib, initialized>>
  \/ OpenStep(1) /\ UNCHANGED <<lastTick, loadedLib, initialized>>
  \/ CloseStep(1) /\ UNCHANGED <<lastTick, loadedLib, initialized>>
  \/ Return(1) /\ UNCHANGED <<lastTick, loadedLib, initialized>>

SubscribeSpec == ConcInit /\ [][SubscribeNext]_vars

\* One caller opens and closes camera A, one call at a time; another
\* triggers captures on it without waiting for the first.  Every binding
\* call reports EDS_ERR_OK.
TriggerNext ==
  \/ Free(1) /\ openAsync(1, "A") /\ UNCHANGED <<lastTick, loadedLib, initialized>>
  \/ Free(1) /\ closeAsync(1, "A") /\ UNCHANGED <<lastTick, loadedLib, initialized>>
  \/ triggerCaptureAsync(2, "A") /\ UNCHANGED <<lastTick, loadedLib, initialized>>
  \/ ListCamerasStep(1) /\ UNCHANGED <<lastTick, loadedLib, initialized>>
  \/ OpenStep(1) /\ UNCHANGED <<lastTick, loadedLib, initialized>>
  \/ CloseStep(1) /\ UNCHANGED <<lastTick, loadedLib, initialized>>
  \/ TriggerStep(2) /\ UNCHANGED <<lastTick, loadedLib, initialized>>
  \/ \E s \in Slots : Return(s) /\ UNCHANGED <<lastTick, loadedLib, initialized>>

TriggerSpec == ConcInit /\ [][TriggerNext]_vars

\* The same callers with binding calls that may report failures.  The timer
\* of the 400 ms wait fires: a capture that waits is resumed.
FairTriggerSpec ==
  Init /\ [][TriggerNext]_vars /\ WF_vars(TriggerStep(2) /\ UNCHANGED <<lastTick, loadedLib, initialized>>)

\* the camera of a caller
PortOf(s) == IF s = 1 THEN "A" ELSE "B"

PairNext ==
  \/ \E s \in Slots : openAsync(s, PortOf(s)) /\ UNCHANGED <<lastTick, loadedLib, initialized>>
  \/ \E s \in Slots : closeAsync(s, PortOf(s)) /\ UNCHANGED <<lastTick, loadedLib, initialized>>
  \/ \E s \in Slots : ListCamerasStep(s) /\ UNCHANGED <<lastTick, loadedLib, initialized>>
  \/ \E s \in Slots : OpenStep(s) /\ UNCHANGED <<lastTick, loadedLib, initialized>>
  \/ \E s \in Slots : CloseStep(s) /\ UNCHANGED <<lastTick, loadedLib, initialized>>
  \/ \E s \in Slots : Return(s) /\ UNCHANGED <<lastTick, loadedLib, initialized>>

PairSpec == ConcInit /\ [][PairNext]_vars

\* Callers of loadEdsdk and unloadEdsdk that do not wait for one another.
\* Every binding call reports EDS_ERR_OK.
LoadNext ==
  \/ \E s \in Slots : loadEdsdk(s) /\ UNCHANGED lastTick
  \/ \E s \in Slots : unloadEdsdk(s) /\ UNCHANGED lastTick
  \/ \E s \in Slots : LoadStep(s) /\ UNCHANGED lastTick
  \/ \E s \in Slots : Return(s) /\ UNCHANGED <<lastTick, loadedLib, initialized>>

LoadSpec == ConcInit /\ [][LoadNext]_vars

\* ------------------------------------------------------------- properties
\* the call in slot s was op and has returned or thrown
Done(s, op) == calls[s].op = op /\ calls[s].pc = "done"

\* how many times a trace calls fn on ref
CallsTo(trace, fn, ref) ==
  Cardinality({i \in 1..Len(trace) : trace[i].fn = fn /\ trace[i].ref = ref})

\* how many times a trace calls fn, on whatever handle
CallsOf(trace, fn) ==
  Cardinality({i \in 1..Len(trace) : trace[i].fn = fn})

\* how many times a trace hands a callback to the SDK through fn
Registrations(trace, fn) ==
  Cardinality({i \in 1..Len(trace) : trace[i].fn = fn /\ trace[i].arg = "set"})

\* every retain and every handler call of a trace is made on the handle of p
OnHandleOf(trace, p) ==
  \A i \in 1..Len(trace) :
    trace[i].fn \in {"EdsRetain", "EdsSetPropertyEventHandler",
                     "EdsSetObjectEventHandler", "EdsSetCameraStateEventHandler"}
      => p \in ConnectedPorts /\ trace[i].ref = RefOf(p)

\* two opens of p, one after the other, with these binding calls: one retain,
\* one registration of each handler, and nothing from the second
OpenedOnce(first, second, p) ==
  /\ CallsOf(first \o second, "EdsRetain") = 1
  /\ Registrations(first \o second, "EdsSetPropertyEventHandler") = 1
  /\ Registrations(first \o second, "EdsSetObjectEventHandler") = 1
  /\ Registrations(first \o second, "EdsSetCameraStateEventHandler") = 1
  /\ OnHandleOf(first \o second, p)
  /\ second = <<>>

\* the ways openAsync throws
OpenErrors ==
  {"ListError", "CountError", "ChildError", "InfoError", "NotFound", "SessionError"}

\* C1, as the claim states it: whenever an open of an identity has returned
\* and the call before it was an open of the same identity, the two calls
\* together made exactly one EdsRetain and one registration of each of the
\* three handlers, and the second made no binding call.
C1_AnyTwoOpens ==
  \A s \in Slots :
    Done(s, "open") /\ calls[s].prior.op = "open"
      => OpenedOnce(calls[s].prior.trace, calls[s].trace, calls[s].portName)

\* C1, amended: when the first of two opens of an identity, one after the
\* other, is made while the identity is not tracked and succeeds, the two
\* calls together make exactly one EdsRetain and one registration of each of
\* the three handlers, all on the handle of that device, and the second call
\* makes no binding call.
C1_OpenTwice ==
  \A s \in Slots :
    /\ Done(s, "open") /\ calls[s].prior.op = "open"
    /\ calls[s].prior.result = "ok" /\ ~calls[s].prior.tracked
    => OpenedOnce(calls[s].prior.trace, calls[s].trace, calls[s].portName)

\* a second open has returned after a first one that opened the session
C1_Witness ==
  \E s \in Slots :
    /\ Done(s, "open") /\ calls[s].result = "ok"
    /\ calls[s].prior.op = "open" /\ calls[s].prior.result = "ok"
    /\ ~calls[s].prior.tracked

\* C2: a close for a port name that no session is tracked for (so also one
\* that was never opened) is a single step that returns false, makes no
\* binding call and leaves the map, the interval handle, the timers and the
\* SDK as they were.
C2_CloseUntracked ==
  [][\A s \in Slots :
       /\ calls'[s] # calls[s]
       /\ calls'[s].op = "close" /\ calls'[s].pc = "done" /\ ~calls'[s].tracked
       => /\ calls[s].pc \in {"idle", "done"}
          /\ calls'[s].result = "false"
          /\ calls'[s].trace = <<>>
          /\ UNCHANGED <<openCameras, eventLoopIntervalHandle, timers, sdk>>]_vars

\* a close has returned for a port name nothing has been opened for
C2_Witness ==
  \E s \in Slots :
    /\ Done(s, "close") /\ ~calls[s].tracked
    /\ calls[s].prior = NoPrior
    /\ \A r \in Refs : sdk[r].refCount = 0

\* C3: when a close that returned true follows an open of the same identity
\* that opened the session, the open made as many EdsRetain calls on the
\* device's handle as the close made EdsRelease calls on it.
C3_RetainRelease ==
  \A s \in Slots :
    /\ Done(s, "close") /\ calls[s].result = "true"
    /\ calls[s].prior.op = "open" /\ calls[s].prior.result = "ok"
    /\ ~calls[s].prior.tracked
    => CallsTo(calls[s].prior.trace, "EdsRetain", RefOf(calls[s].portName))
         = CallsTo(calls[s].trace, "EdsRelease", RefOf(calls[s].portName))

\* a close has returned true right after the open that opened the session
C3_Witness ==
  \E s \in Slots :
    /\ Done(s, "close") /\ calls[s].result = "true"
    /\ calls[s].prior.op = "open" /\ calls[s].prior.result = "ok"
    /\ ~calls[s].prior.tracked
    /\ CallsTo(calls[s].prior.trace, "EdsRetain", RefOf(calls[s].portName)) = 1

\* C4: with calls made one at a time, whenever no call is in flight the
\* interval handle is held exactly when at least one session is tracked; and
\* at every moment at most one interval timer is active, and one is active
\* exactly when the handle is held.
C4_LoopIffTracked ==
  /\ timers <= 1
  /\ timers = 1 <=> eventLoopIntervalHandle
  /\ Quiet => (eventLoopIntervalHandle <=> Tracked # {})

\* two sessions are tracked and one timer runs
C4_Witness ==
  /\ Quiet
  /\ Cardinality(Tracked) = 2
  /\ timers = 1

\* C5: a triggerCapture made while no session is tracked for the port name
\* throws the not-open error and makes no binding call.
C5_TriggerNotOpen ==
  \A s \in Slots :
    Done(s, "trigger") /\ ~calls[s].tracked
      => calls[s].result = "NotOpen" /\ calls[s].trace = <<>>

\* a triggerCapture has thrown right after the close that closed the session
C5_Witness ==
  \E s \in Slots :
    /\ Done(s, "trigger") /\ ~calls[s].tracked
    /\ calls[s].prior.op = "close" /\ calls[s].prior.result = "true"

\* the tick handed a transfer request to the object callback of a session
TransferTick ==
  /\ lastTick.kind = "object"
  /\ lastTick.code = EDS_OBJECT_EVENT_DIR_ITEM_REQUEST_TRANSFER

\* the listeners of the session whose callback the tick called
TickListeners == cameraModules[lastTick.cam].newImageListeners

\* a trace calls EdsDownloadComplete once and releases the stream once, in
\* that order
CompleteThenRelease(trace) ==
  /\ CallsOf(trace, "EdsDownloadComplete") = 1
  /\ CallsTo(trace, "EdsRelease", "stream") = 1
  /\ \A i, j \in 1..Len(trace) :
       trace[i].fn = "EdsDownloadComplete" /\ trace[j].fn = "EdsRelease" => i < j

\* C6: when a transfer request is handled for a session with exactly one
\* listener and every binding call whose result is looked at reports success,
\* the listener is called exactly once, with an image that has the file name,
\* size and time the item's info has, and the binding sees one
\* EdsDownloadComplete followed by one release of the stream.
C6_OneListener ==
  /\ TransferTick
  /\ Len(TickListeners) = 1
  /\ \A i \in 1..Len(lastTick.run.reported) : lastTick.run.reported[i] = EDS_ERR_OK
  => LET run == lastTick.run
         info == DirectoryItemInfo(run.item)
     IN /\ Len(run.delivered) = 1
        /\ run.delivered[1].listener = TickListeners[1]
        /\ run.delivered[1].image.filename = info.szFileName
        /\ run.delivered[1].image.size = info.size
        /\ run.delivered[1].image.dateTime = info.dateTime
        /\ CompleteThenRelease(run.trace)

\* a transfer request has been handled for a session with one listener, and
\* no binding call failed
C6_Witness ==
  /\ TransferTick
  /\ Len(TickListeners) = 1
  /\ lastTick.run.reported = <<EDS_ERR_OK, EDS_ERR_OK, EDS_ERR_OK, EDS_ERR_OK>>
  /\ Len(lastTick.run.delivered) = 1

\* what C7 says happens without listeners
Undelivered(run) ==
  /\ CallsOf(run.trace, "EdsCreateFileStream") = 1
  /\ CallsOf(run.trace, "EdsDownload") = 1
  /\ CompleteThenRelease(run.trace)
  /\ run.delivered = <<>>
  /\ run.noListenerWarning

\* C7, as the claim states it: whenever a transfer request is handled for a
\* session without listeners, the stream is created, the download made,
\* EdsDownloadComplete and the release of the stream each made once, no
\* listener called and the no-listener warning logged.
C7_AnyRunWithoutListeners ==
  TransferTick /\ Len(TickListeners) = 0 => Undelivered(lastTick.run)

\* C7, amended: when a transfer request is handled for a session without
\* listeners and EdsGetDirectoryItemInfo, EdsCreateFileStream and EdsDownload
\* report success, the stream is created, the download made,
\* EdsDownloadComplete and the release of the stream each made once, no
\* listener called and the no-listener warning logged.
C7_NoListener ==
  /\ TransferTick
  /\ Len(TickListeners) = 0
  /\ Len(lastTick.run.reported) >= 3
  /\ \A i \in 1..3 : lastTick.run.reported[i] = EDS_ERR_OK
  => Undelivered(lastTick.run)

\* a transfer request has been downloaded for a session that had a listener
\* and has none any more
C7_Witness ==
  /\ TransferTick
  /\ Len(TickListeners) = 0
  /\ Len(lastTick.run.reported) = 4
  /\ lastTick.run.outcome = "true"

\* C8: no step of a close changes what the map holds for another port name;
\* and when the close returns, it returns true exactly if a session was
\* tracked for its port name when it was made, and after true the map holds
\* no session for that port name.
C8_CloseResult ==
  [][\A s \in Slots :
       calls'[s] # calls[s] /\ calls'[s].op = "close"
       => /\ \A q \in PortNames \ {calls'[s].portName} :
               openCameras'[q] = openCameras[q]
          /\ calls'[s].pc = "done"
               => /\ calls'[s].result = "true" <=> calls'[s].tracked
                  /\ calls'[s].result \in {"true", "false"}
                  /\ calls'[s].result = "true"
                       => openCameras'[calls'[s].portName] = NoCam]_vars

\* a close has returned true while the session of another port is tracked
C8_Witness ==
  \E s \in Slots :
    /\ Done(s, "close") /\ calls[s].result = "true"
    /\ \E q \in PortNames \ {calls[s].portName} : openCameras[q] # NoCam

\* C9: an open that has thrown leaves no session tracked for its port name;
\* and a triggerCapture or close made right after a thrown open of the same
\* identity makes no binding call, the one throwing the not-open error and
\* the other returning false.
C9_FailedOpen ==
  \A s \in Slots :
    /\ Done(s, "open") /\ calls[s].result # "ok"
         => calls[s].result \in OpenErrors /\ openCameras[calls[s].portName] = NoCam
    /\ /\ calls[s].pc = "done" /\ calls[s].op \in {"trigger", "close"}
       /\ calls[s].prior.op = "open" /\ calls[s].prior.result # "ok"
       => /\ calls[s].trace = <<>>
          /\ calls[s].result = IF calls[s].op = "trigger" THEN "NotOpen" ELSE "false"

\* a triggerCapture has thrown right after an open whose session failed to
\* open
C9_Witness ==
  \E s \in Slots :
    /\ Done(s, "trigger")
    /\ calls[s].prior.op = "open" /\ calls[s].prior.result = "SessionError"

\* C10: a listing that has returned its list has released the list handle
\* exactly once, as its last binding call, has retained no handle, and every
\* identity it returns has the port name, the description and the subtype,
\* and no camera reference.
C10_ListReleases ==
  \A s \in Slots :
    /\ calls[s].op \in {"list", "indexList"}
    /\ calls[s].pc = "done" /\ calls[s].result = "list"
    => /\ CallsTo(calls[s].trace, "EdsRelease", "list") = 1
       /\ calls[s].trace[Len(calls[s].trace)] = B("EdsRelease", "list", "")
       /\ CallsOf(calls[s].trace, "EdsRetain") = 0
       /\ \A i \in 1..Len(calls[s].ret) :
            DOMAIN calls[s].ret[i] = {"portName", "deviceDescription", "deviceSubType"}

C12_GlobalTeardownOnce ==
  Done(1, "terminate") =>
    /\ CallsOf(calls[1].trace, "EdsTerminateSDK") = 1
    /\ calls[1].trace[Len(calls[1].trace)].fn = "EdsTerminateSDK"
    /\ Tracked = {}
    /\ ~eventLoopIntervalHandle

Before(listeners, x, y) ==
  \E i, j \in 1..Len(listeners) :
    i < j /\ listeners[i] = x /\ listeners[j] = y

\* the listeners of a registry
Members(listeners) == {listeners[i] : i \in 1..Len(listeners)}

DeliveredTo(run) == [i \in 1..Len(run.delivered) |-> run.delivered[i].listener]

\* a run got as far as publishing: the download was made and the stream
\* released
Published(run) == Len(run.reported) = 4

\* C15: a run that publishes calls every listener subscribed at that moment
\* exactly once, within the tick, in the order of subscription.
C15_PublishInOrder ==
  TransferTick /\ Published(lastTick.run)
    => DeliveredTo(lastTick.run) = TickListeners

\* C16: when a listener throws during publish, every other listener
\* subscribed at that moment is still called.
C16_ThrowingListener ==
  /\ TransferTick
  /\ Published(lastTick.run)
  /\ lastTick.run.outcome = "rejected"
  => Members(DeliveredTo(lastTick.run)) = Members(TickListeners)

\* the session objects that exist for a handle: tracked by the map, held by a
\* call in flight or registered with the SDK
SessionObjects(ref) ==
  {id \in CamIds : cameraModules[id] # NoCamera /\ cameraModules[id].cameraRef = ref}

\* C17: in every state, whatever opens are in flight, at most one session
\* object exists for a port name and its handle is retained at most once.
C17_OneSessionPerPort ==
  \A p \in ConnectedPorts :
    /\ Cardinality(SessionObjects(RefOf(p))) <= 1
    /\ sdk[RefOf(p)].refCount <= 1

\* C18: in every state with no call in flight, whatever opens and closes of
\* different identities have interleaved before, the interval is held exactly
\* when a session is tracked.
C18_LoopIffTrackedAtRest ==
  /\ Quiet /\ Tracked # {} => eventLoopIntervalHandle /\ timers = 1
  /\ Quiet /\ Tracked = {} => ~eventLoopIntervalHandle /\ timers = 0

\* C19: in every state, whatever closes and terminates have interleaved, no
\* handle has been released more often than it has been retained.
C19_ReleasesWithinRetains ==
  \A r \in Refs : ~(sdk[r].refCount < 0)

\* where a trace makes the call fn with arg on ref: the set of its positions
PositionsOf(trace, fn, ref, arg) ==
  {i \in 1..Len(trace) :
     trace[i].fn = fn /\ trace[i].ref = ref /\ trace[i].arg = arg}

\* the call is made once in a trace
Once(trace, fn, ref, arg) == Cardinality(PositionsOf(trace, fn, ref, arg)) = 1

\* both calls are made, and every first one before every second one
InOrder(trace, ref, fn1, arg1, fn2, arg2) ==
  /\ PositionsOf(trace, fn1, ref, arg1) # {}
  /\ PositionsOf(trace, fn2, ref, arg2) # {}
  /\ \A i \in PositionsOf(trace, fn1, ref, arg1),
        j \in PositionsOf(trace, fn2, ref, arg2) : i < j

\* the binding calls of open() as C20 lists them
OpenSequence(trace, ref) ==
  /\ Once(trace, "EdsRetain", ref, "")
  /\ Once(trace, "EdsSetPropertyEventHandler", ref, "set")
  /\ Once(trace, "EdsSetObjectEventHandler", ref, "set")
  /\ Once(trace, "EdsSetCameraStateEventHandler", ref, "set")
  /\ Once(trace, "EdsOpenSession", ref, "")
  /\ Once(trace, "EdsSetPropertyData", ref, "saveTo")
  /\ Once(trace, "EdsSetPropertyData", ref, "driveMode")
  /\ InOrder(trace, ref, "EdsRetain", "", "EdsSetPropertyEventHandler", "set")
  /\ InOrder(trace, ref, "EdsSetPropertyEventHandler", "set",
             "EdsSetObjectEventHandler", "set")
  /\ InOrder(trace, ref, "EdsSetObjectEventHandler", "set",
             "EdsSetCameraStateEventHandler", "set")
  /\ InOrder(trace, ref, "EdsSetCameraStateEventHandler", "set", "EdsOpenSession", "")
  /\ InOrder(trace, ref, "EdsOpenSession", "", "EdsSetPropertyData", "saveTo")
  /\ InOrder(trace, ref, "EdsSetPropertyData", "saveTo",
             "EdsSetPropertyData", "driveMode")

\* C20: whenever an open has set its session to opened, it has by then made,
\* on the handle of the session and in this order, the retain, the
\* registration of the property, object and state handlers, EdsOpenSession,
\* the setting of save-to and the setting of the drive mode.
C20_OpenSequence ==
  /\ /\ calls[1].op = "open" /\ calls[1].cam # NoCam
     /\ cameraModules[calls[1].cam].opened
     => OpenSequence(calls[1].trace, cameraModules[calls[1].cam].cameraRef)
  /\ /\ Done(1, "open") /\ calls[1].result = "ok" /\ ~calls[1].tracked
     => OpenSequence(calls[1].trace, RefOf(calls[1].portName))

\* the places of an open past the registration of the object handler, and
\* past that of the state handler
PastObject ==
  {"state", "session", "sessionFailed", "saveTo", "saveToSized", "driveMode",
   "capacity", "opened", "startLoop", "store"}

PastState == PastObject \ {"state"}

\* C21: an open whose registration of a handler reported a failure executes
\* no later step and does not set its session to opened: an open that has
\* gone past a registration has registered that handler with the SDK, and a
\* session that is opened has all three registered.
C21_FailedStepAborts ==
  calls[1].op = "open" /\ calls[1].cam # NoCam =>
    LET id == calls[1].cam
        ref == cameraModules[id].cameraRef
    IN /\ calls[1].pc \in PastObject => sdk[ref].propertyHandler = id
       /\ calls[1].pc \in PastState => sdk[ref].objectHandler = id
       /\ cameraModules[id].opened =>
            /\ sdk[ref].propertyHandler = id
            /\ sdk[ref].objectHandler = id
            /\ sdk[ref].stateHandler = id

\* the names of the binding functions a trace calls on ref, in order
CalledOn(trace, ref) ==
  LET on == SelectSeq(trace, LAMBDA c : c.ref = ref)
  IN [i \in 1..Len(on) |-> on[i].fn]

\* the binding calls of a session's close(), in the order C22 gives them
CloseSequence ==
  << "EdsSetPropertyEventHandler", "EdsSetObjectEventHandler",
     "EdsSetCameraStateEventHandler", "EdsCloseSession", "EdsRelease" >>

\* C22: a close of a tracked session, whether made by closeAsync or by
\* terminate, calls on the handle of the session, in this order: the clearing
\* of the property, object and state handlers, EdsCloseSession, EdsRelease;
\* and the three handler calls of a close pass null.
C22_CloseSequence ==
  /\ Done(1, "close") /\ calls[1].result = "true"
     => /\ CalledOn(calls[1].trace, RefOf(calls[1].portName)) = CloseSequence
        /\ Len(calls[1].trace) = 5
        /\ \A i \in 1..3 : calls[1].trace[i].arg = "null"
  /\ Done(1, "terminate")
     => \A i \in 1..Len(calls[1].found) :
          CalledOn(calls[1].trace, calls[1].found[i]) = CloseSequence

\* a close has returned true after its five calls, on a session whose three
\* handlers had been registered and are now cleared in the SDK
C22_Witness ==
  /\ Done(1, "close") /\ calls[1].result = "true"
  /\ Len(calls[1].trace) = 5
  /\ calls[1].prior.op = "open" /\ calls[1].prior.result = "ok"
  /\ sdk[RefOf(calls[1].portName)].propertyHandler = NoCam
  /\ sdk[RefOf(calls[1].portName)].objectHandler = NoCam
  /\ sdk[RefOf(calls[1].portName)].stateHandler = NoCam
  /\ sdk[RefOf(calls[1].portName)].refCount = 0

\* a step of the close of the session on ref reported a failure: the SDK
\* still has a handler of that session, or its native session is still open
CloseStepFailed(ref) ==
  \/ sdk[ref].session
  \/ sdk[ref].propertyHandler # NoCam
  \/ sdk[ref].objectHandler # NoCam
  \/ sdk[ref].stateHandler # NoCam

C24_ClosedAfterClose ==
  calls[1].op = "close" /\ calls[1].pc = "delete"
    => ~cameraModules[calls[1].cam].opened

\* the three callback tokens of a session object are all there
TokensPresent(cam) ==
  /\ cam.handlePropertyEventChange
  /\ cam.handleObjectEventChange
  /\ cam.handleStateEventChange

\* none of them is there
TokensAbsent(cam) ==
  /\ ~cam.handlePropertyEventChange
  /\ ~cam.handleObjectEventChange
  /\ ~cam.handleStateEventChange

\* C25: whenever no call is in flight, every session object that exists has
\* its three callback tokens if it is opened and none of them if it is not.
C25_TokensIffOpen ==
  Quiet =>
    \A id \in CamIds :
      cameraModules[id] # NoCamera =>
        IF cameraModules[id].opened
          THEN TokensPresent(cameraModules[id])
          ELSE TokensAbsent(cameraModules[id])

\* the binding calls of a trace: function and argument, in order
CallNames(trace) == [i \in 1..Len(trace) |-> <<trace[i].fn, trace[i].arg>>]

\* C27: a triggerCapture on a tracked session makes, in this order, the call
\* that sets the capacity hint, the press command and, after the wait, the
\* release command.
C27_TriggerSequence ==
  Done(1, "trigger") /\ calls[1].tracked =>
    CallNames(calls[1].trace) =
      << <<"EdsSetCapacity", "">>, <<"EdsSendCommand", "press">>,
         <<"EdsSendCommand", "off">> >>

\* C28: a triggerCapture whose press or release command reported a failure
\* ends in an error for its caller, and has sent each command once.
C28_CommandFailure ==
  /\ Done(1, "trigger")
  /\ \E i \in 1..Len(calls[1].reported) : calls[1].reported[i] # EDS_ERR_OK
  => /\ calls[1].result # "ok"
     /\ CallsOf(calls[1].trace, "EdsSendCommand") <= 2

\* a session object is Open: its open() has set the flag, no close() of it
\* has got as far as its await, and the manager or the open still holds it
SessionIsOpen(id) ==
  /\ id # NoCam
  /\ cameraModules[id].opened
  /\ ~ \E s \in Slots : /\ calls[s].op \in {"close", "terminate"}
                        /\ calls[s].pc \in {"release", "delete", "closing"}
                        /\ \/ calls[s].cam = id
                           \/ \E i \in 1..Len(calls[s].found) :
                                calls[s].found[i] = cameraModules[id].cameraRef
  /\ \/ \E p \in PortNames : openCameras[p] = id
     \/ \E s \in Slots : calls[s].op = "open" /\ calls[s].cam = id

\* C26: a triggerCapture hands a shutter command to the binding only while
\* the session it acts on is Open: the press command when the call is made,
\* the release command after the wait.
C26_CommandsOnlyWhileOpen ==
  [][/\ triggerCaptureAsync(2, "A") /\ calls'[2].trace # <<>>
          => SessionIsOpen(openCameras["A"])
     /\ CameraTriggerRelease(2) => SessionIsOpen(calls[2].cam)]_vars

\* C29: whatever event the SDK hands to a property, object or state
\* callback, the callback returns EDS_ERR_OK, also when the download started
\* by an object event fails.
C29_CallbacksReturnOk ==
  lastTick.kind \in {"property", "object", "state"}
    => lastTick.returned = EDS_ERR_OK

\* the object callback has returned EDS_ERR_OK for a transfer request whose
\* download was given up because a binding call reported a failure
C29_Witness ==
  /\ TransferTick
  /\ lastTick.run.outcome = "rejected"
  /\ Len(lastTick.run.reported) < 4
  /\ lastTick.returned = EDS_ERR_OK

\* C30: a download is started by exactly the ticks whose event is an object
\* event with the transfer-request code; for every other event the callback
\* makes no binding call, calls no listener and logs no warning.
C30_DownloadIffTransfer ==
  lastTick.kind \in {"property", "object", "state"} =>
    /\ lastTick.run.trace # <<>>
         <=> (/\ lastTick.kind = "object"
              /\ lastTick.code = EDS_OBJECT_EVENT_DIR_ITEM_REQUEST_TRANSFER)
    /\ ~TransferTick => lastTick.run = NoRun
    /\ TransferTick => lastTick.run.trace[1].fn = "EdsGetDirectoryItemInfo"

\* an object event with another code has been handled by the callback of a
\* session that has a listener, and nothing was downloaded
C30_Witness ==
  /\ lastTick.kind = "object"
  /\ lastTick.code # EDS_OBJECT_EVENT_DIR_ITEM_REQUEST_TRANSFER
  /\ lastTick.run = NoRun
  /\ Len(TickListeners) > 0

\* the steps of the download whose failure is thrown, in the order they run
PipelineSteps == << "EdsGetDirectoryItemInfo", "EdsCreateFileStream", "EdsDownload" >>

\* the steps of a run that reported a failure that is thrown
FailedSteps(run) ==
  {i \in 1..Len(PipelineSteps) :
     i <= Len(run.reported) /\ run.reported[i] # EDS_ERR_OK}

\* C31: when EdsGetDirectoryItemInfo, EdsCreateFileStream or EdsDownload
\* reports a failure, that call is the last binding call of the download:
\* no later step is made, EdsDownloadComplete is not called and no listener
\* is handed an image.
C31_PipelineStopsAtFailure ==
  TransferTick =>
    \A i \in FailedSteps(lastTick.run) :
      /\ Len(lastTick.run.trace) = i
      /\ lastTick.run.trace[i].fn = PipelineSteps[i]
      /\ CallsOf(lastTick.run.trace, "EdsDownloadComplete") = 0
      /\ lastTick.run.delivered = <<>>
      /\ lastTick.run.outcome = "rejected"

\* the download of a session with a listener failed at EdsDownload
C31_Witness ==
  /\ TransferTick
  /\ Len(TickListeners) > 0
  /\ FailedSteps(lastTick.run) = {3}
  /\ lastTick.run.delivered = <<>>

\* C32: in a download that got as far as calling EdsDownload, the stream is
\* released exactly once, whether EdsDownload reported success or failure.
C32_StreamReleasedOnce ==
  TransferTick /\ CallsOf(lastTick.run.trace, "EdsDownload") = 1
  => CallsTo(lastTick.run.trace, "EdsRelease", "stream") = 1

\* C33, as the claim states it: when EdsDownload succeeded and
\* EdsDownloadComplete reports a failure, the download does not fail, the
\* stream is released once and every subscribed listener is handed the image.
C33_CompleteFailureIsNotFatal ==
  /\ TransferTick
  /\ Len(lastTick.run.reported) = 4
  /\ lastTick.run.reported[4] # EDS_ERR_OK
  => /\ lastTick.run.outcome = "true"
     /\ CallsTo(lastTick.run.trace, "EdsRelease", "stream") = 1
     /\ DeliveredTo(lastTick.run) = TickListeners

\* C34: a tick starts only when no tick is running, that is when the
\* EdsGetEvent call of the tick before it and the callback that call invoked
\* have returned, and the tick calls EdsGetEvent exactly once.
C34_OnePumpPerTick ==
  [][lastTick' # lastTick /\ lastTick' # NoTick /\ ~UnhandledRejection
       => /\ lastTick = NoTick
          /\ eventLoopIntervalHandle /\ timers > 0
          /\ lastTick'.pumps = 1]_vars

\* a tick of the active loop has called a callback through its one
\* EdsGetEvent call
C34_Witness ==
  /\ eventLoopIntervalHandle
  /\ lastTick.kind \in {"property", "state", "object"}
  /\ lastTick.pumps = 1

\* C35: the tick that hands a transfer request to the object callback makes
\* none of the blocking calls of the download: when the callback has
\* returned to EdsGetEvent, neither EdsCreateFileStream nor EdsDownload has
\* been called for the item.
C35_DownloadOutsideTick ==
  TransferTick /\ lastTick.returned = EDS_ERR_OK
  => /\ CallsOf(lastTick.run.trace, "EdsCreateFileStream") = 0
     /\ CallsOf(lastTick.run.trace, "EdsDownload") = 0

\* C36: no failure inside a callback, inside a download or of an EdsGetEvent
\* call stops the loop or changes the map of sessions: the tick leaves the
\* map, the interval and its handle as they were, and it comes to an end, so
\* that the interval fires again and later events are handled.
C36_FailuresStayInside ==
  [][lastTick' # lastTick
       => /\ UNCHANGED <<openCameras, eventLoopIntervalHandle, timers>>
          /\ ~lastTick'.run.unhandledRejection]_vars

\* C37: an open that has come to its end, by returning or by throwing, has
\* released the list handle it obtained from EdsGetCameraList exactly once.
C37_ListReleasedOnEveryPath ==
  \A s \in Slots :
    Done(s, "open") /\ calls[s].list # "none"
    => /\ calls[s].list = "released"
       /\ CallsTo(calls[s].trace, "EdsRelease", "list") = 1

\* the binding calls a step adds to the trace of the call in slot s
NewCalls(s) ==
  IF calls[s].pc \in {"idle", "done"} \/ Len(calls'[s].trace) < Len(calls[s].trace)
    THEN calls'[s].trace
    ELSE SubSeq(calls'[s].trace, Len(calls[s].trace) + 1, Len(calls'[s].trace))

\* C38: every call on a camera handle other than EdsRetain is made while the
\* handle is retained: after close has released it no command, property or
\* session call names it, not even the release-shutter command of a
\* triggerCapture that was waiting when the close ran.
C38_NoCallOnReleasedHandle ==
  [][\A s \in Slots : \A i \in 1..Len(NewCalls(s)) :
       LET b == NewCalls(s)[i]
       IN b.ref \in Refs /\ b.fn # "EdsRetain" /\ b.fn # "EdsGetDeviceInfo"
            => sdk[b.ref].refCount > 0 \/ sdk'[b.ref].refCount > 0]_vars

\* the capture in slot s has sent the press command and waits
Pressed(s) == calls[s].op = "trigger" /\ calls[s].pc = "settle"

\* the capture in slot s has sent the press command and, after it, the
\* release command on the same handle
PressedAndReleased(s) ==
  /\ Done(s, "trigger")
  /\ Len(calls[s].trace) = 2
  /\ calls[s].trace[1].fn = "EdsSendCommand" /\ calls[s].trace[1].arg = "press"
  /\ calls[s].trace[2].fn = "EdsSendCommand" /\ calls[s].trace[2].arg = "off"
  /\ calls[s].trace[2].ref = calls[s].trace[1].ref

\* C39: a capture that has sent the press command goes on to send the
\* release command on the same handle, whatever the press command reported.
C39_PressLeadsToRelease ==
  Pressed(2) ~> PressedAndReleased(2)

\* a capture whose press command reported a failure has sent the release
\* command
C39_Witness ==
  /\ PressedAndReleased(2)
  /\ calls[2].reported[1] # EDS_ERR_OK

\* C40: since the last unload EdsInitializeSDK has been called at most once,
\* and no loadEdsdk builds a second library instance while one is kept, so
\* that every loadEdsdk returns the same instance.
C40_OneLibrary ==
  /\ initialized <= 1
  /\ \A s \in Slots :
       calls[s].op = "load" /\ calls[s].pc = "loaded" => loadedLib = NoLib

====
